---- MODULE Spec2Model ----
(***************************************************************************)
(* Model of the loan (EMI) calculator and the Demand, Collection & Balance *)
(* (DCB) calculator pages.                                                 *)
(*                                                                         *)
(* Numbers.  The program computes in IEEE doubles.  The model computes in  *)
(* exact rationals extended with the three special values of a double:     *)
(* a number is a pair <<n, d>>, in lowest terms with d > 0 when finite,    *)
(* and <<1, 0>> = +Infinity, <<-1, 0>> = -Infinity, <<0, 0>> = NaN.        *)
(* Division by zero, NaN propagation and comparisons with NaN follow the   *)
(* language's arithmetic; rounding is not modelled.  Two numbers are the   *)
(* same value when their pairs are equal (NaN is one value).               *)
(*                                                                         *)
(* Dates are <<year, month, day>> triples (local midnight of that day).    *)
(***************************************************************************)
EXTENDS Integers, Sequences, FiniteSets

\* ------------------------------------------------------------------ bounds
\* Largest instalment count typed into a form.
MaxN == 3

\* ----------------------------------------------------------------- values
\* The one element of a singleton set.  {F(x) : x \in {e}} evaluates e once
\* and names its value x, as a const declaration of the code does.
Only(S) == CHOOSE x \in S : TRUE
Bind1(a, Op(_)) == Only({Op(x) : x \in {a}})
Bind2(a, b, Op(_, _)) == Only({Op(x, y) : x \in {a}, y \in {b}})
Bind3(a, b, c, Op(_, _, _)) == Only({Op(x, y, z) : x \in {a}, y \in {b}, z \in {c}})

\* ----------------------------------------------------------------- numbers
NaN == <<0, 0>>
PosInf == <<1, 0>>
NegInf == <<-1, 0>>
Zero == <<0, 1>>
One == <<1, 1>>

Abs(i) == IF i < 0 THEN 0 - i ELSE i

Sign(i) == IF i > 0 THEN 1 ELSE IF i < 0 THEN -1 ELSE 0

\* The greatest common divisor of a >= 0 and b >= 0.
RECURSIVE GCD(_, _)
GCD(a, b) == IF b = 0 THEN a ELSE Bind1(a % b, LAMBDA r : GCD(b, r))

\* The finite number n/d (d > 0) in lowest terms.
Norm(n, d) == Bind1(GCD(Abs(n), d), LAMBDA g : <<n \div g, d \div g>>)

Num(i) == <<i, 1>>

IsNaN(a) == a = NaN
IsFinite(a) == a[2] # 0
IsInf(a) == a[2] = 0 /\ a[1] # 0

\* a + b
AddValues(a, b) ==
    IF IsNaN(a) \/ IsNaN(b) THEN NaN
    ELSE IF IsInf(a) /\ IsInf(b) THEN (IF a = b THEN a ELSE NaN)
    ELSE IF IsInf(a) THEN a
    ELSE IF IsInf(b) THEN b
    ELSE Bind1(GCD(a[2], b[2]),
               LAMBDA g : Bind2(a[1] * (b[2] \div g) + b[1] * (a[2] \div g),
                                (a[2] \div g) * b[2], Norm))
Add(a, b) == Bind2(a, b, AddValues)

Neg(a) == Bind1(a, LAMBDA x : <<0 - x[1], x[2]>>)

\* a - b
Sub(a, b) == Add(a, Neg(b))

\* a * b
MulValues(a, b) ==
    IF IsNaN(a) \/ IsNaN(b) THEN NaN
    ELSE IF IsInf(a) \/ IsInf(b)
         THEN (IF a[1] = 0 \/ b[1] = 0 THEN NaN ELSE <<Sign(a[1]) * Sign(b[1]), 0>>)
    ELSE Bind2(GCD(Abs(a[1]), b[2]), GCD(Abs(b[1]), a[2]),
               LAMBDA g1, g2 : <<(a[1] \div g1) * (b[1] \div g2),
                                 (a[2] \div g2) * (b[2] \div g1)>>)
Mul(a, b) == Bind2(a, b, MulValues)

\* a / b (the zeros of the model are positive zeros)
DivValues(a, b) ==
    IF IsNaN(a) \/ IsNaN(b) THEN NaN
    ELSE IF IsInf(b) THEN (IF IsInf(a) THEN NaN ELSE Zero)
    ELSE IF b[1] = 0 THEN (IF a[1] = 0 THEN NaN ELSE <<Sign(a[1]), 0>>)
    ELSE IF IsInf(a) THEN <<Sign(a[1]) * Sign(b[1]), 0>>
    ELSE MulValues(a, <<Sign(b[1]) * b[2], Abs(b[1])>>)
Div(a, b) == Bind2(a, b, DivValues)

\* a < b as the language compares numbers: false when either is NaN.
LtValues(a, b) ==
    IF IsNaN(a) \/ IsNaN(b) THEN FALSE
    ELSE IF IsInf(a) \/ IsInf(b)
         THEN (IF IsInf(a) THEN a[1] ELSE 0) < (IF IsInf(b) THEN b[1] ELSE 0)
    ELSE a[1] * b[2] < b[1] * a[2]
Lt(a, b) == Bind2(a, b, LtValues)

\* Math.max(a, b)
MathMax(a, b) ==
    Bind2(a, b, LAMBDA x, y : IF IsNaN(x) \/ IsNaN(y) THEN NaN
                              ELSE IF LtValues(x, y) THEN y ELSE x)

\* Math.pow(a, e) for an integer e >= 0.
RECURSIVE PowInt(_, _)
PowInt(a, e) == IF e = 0 THEN One ELSE Mul(a, PowInt(a, e - 1))

\* Math.pow(a, e) for a rational exponent e >= 0: 1 for the base 1, and for
\* the base 0, 1 when e = 0 and else 0.  A fractional power of another base
\* is irrational and has no arm: the inputs are drawn so that it is never
\* asked for.
MathPow(a, e) ==
    Bind2(a, e, LAMBDA x, y : CASE x = One -> One
                                [] x = Zero -> (IF y = Zero THEN One ELSE Zero)
                                [] x # One /\ x # Zero /\ y[2] = 1 -> PowInt(x, y[1]))

\* ------------------------------------------------------------------- dates
\* An empty text field, an unset date, a null.
Null == <<>>

IsLeap(y) == (y % 4 = 0 /\ y % 100 # 0) \/ y % 400 = 0

DaysInMonth(y, m) ==
    IF m = 2 THEN (IF IsLeap(y) THEN 29 ELSE 28)
    ELSE IF m \in {4, 6, 9, 11} THEN 30 ELSE 31

\* addMonths(date, amount) of date-fns: the same day of the month `amount`
\* months away, or that month's last day when it has fewer days.
addMonths(date, amount) ==
    LET idx == date[1] * 12 + (date[2] - 1) + amount
        y == idx \div 12
        m == (idx % 12) + 1
        daysInMonth == DaysInMonth(y, m)
    IN  IF date[3] >= daysInMonth THEN <<y, m, daysInMonth>> ELSE <<y, m, date[3]>>

\* a <= b on dates
DateLe(a, b) ==
    \/ a[1] < b[1]
    \/ a[1] = b[1] /\ a[2] < b[2]
    \/ a[1] = b[1] /\ a[2] = b[2] /\ a[3] <= b[3]

\* Days since 1970-01-01 of a calendar date.
DayNumber(date) ==
    LET y == IF date[2] <= 2 THEN date[1] - 1 ELSE date[1]
        era == y \div 400
        yoe == y - era * 400
        mp == IF date[2] > 2 THEN date[2] - 3 ELSE date[2] + 9
        doy == (153 * mp + 2) \div 5 + date[3] - 1
        doe == yoe * 365 + yoe \div 4 - yoe \div 100 + doy
    IN  era * 146097 + doe - 719468

\* differenceInDays with the two dates exchanged.
differenceInDaysExchanged(later, earlier) == DayNumber(earlier) - DayNumber(later)

\* differenceInDays(later, earlier) of date-fns on two local midnights.
differenceInDays(later, earlier) == DayNumber(later) - DayNumber(earlier)

\* ----------------------------------------------------------------- parsing
\* A number field holds Null (nothing typed) or the number typed.
\* parseFloat: NaN for the empty string.
parseFloat(v) == IF v = Null THEN NaN ELSE v

\* parseInt: NaN for the empty string, else the integer part, toward zero.
parseInt(v) == IF v = Null THEN NaN ELSE Num(Sign(v[1]) * (Abs(v[1]) \div v[2]))

\* x || 0 on a number: NaN and 0 are falsy.
OrZero(x) == IF IsNaN(x) \/ x = Zero THEN Zero ELSE x

\* ------------------------------------------------------------ rate, months
getMonthsToAdd(frequency) ==
    CASE frequency = "daily" -> 1
      [] frequency = "monthly" -> 1
      [] frequency = "quarterly" -> 3
      [] frequency = "half-yearly" -> 6
      [] frequency = "yearly" -> 12
      [] OTHER -> 1

PeriodsPerYear(interestFrequency) ==
    CASE interestFrequency = "daily" -> 365
      [] interestFrequency = "monthly" -> 12
      [] interestFrequency = "quarterly" -> 4
      [] interestFrequency = "half-yearly" -> 2
      [] interestFrequency = "yearly" -> 1
      [] OTHER -> 1

\* getRatePerPeriod returning the simple rate for every frequency.
getRatePerPeriodSimple(annualRate, interestFrequency, instalmentMonths) ==
    Mul(annualRate, Div(Num(instalmentMonths), Num(12)))

getRatePerPeriod(annualRate, interestFrequency, instalmentMonths) ==
    LET tYears == Div(Num(instalmentMonths), Num(12))
    IN  IF interestFrequency = "no-compound"
        THEN Mul(annualRate, tYears)
        ELSE LET periodsPerYear == Num(PeriodsPerYear(interestFrequency))
             IN  Sub(MathPow(Add(One, Div(annualRate, periodsPerYear)),
                             Mul(periodsPerYear, tYears)),
                     One)

\* ---------------------------------------------------------------- schedule
\* InstalmentAmount without the "- 1" of the denominator: P * r * (1 + r)^n / (1 + r)^n.
InstalmentAmountNoMinusOne(principal, ratePerPeriod, n) ==
    Div(Mul(Mul(principal, ratePerPeriod), PowInt(Add(One, ratePerPeriod), n)),
        PowInt(Add(One, ratePerPeriod), n))

\* EMI = P * r * (1 + r)^n / ((1 + r)^n - 1)
InstalmentAmount(principal, ratePerPeriod, n) ==
    Div(Mul(Mul(principal, ratePerPeriod), PowInt(Add(One, ratePerPeriod), n)),
        Sub(PowInt(Add(One, ratePerPeriod), n), One))

\* RowInterest with the growth factor 1 + r in place of the rate r.
RowInterestGrowthFactor(remainingBalance, ratePerPeriod) ==
    Mul(remainingBalance, Add(One, ratePerPeriod))

\* Interest charged by one row on the balance before it.
RowInterest(remainingBalance, ratePerPeriod) == Mul(remainingBalance, ratePerPeriod)

\* Principal repaid by one row.
RowPrincipal(instalmentAmount, interestAmount) == Sub(instalmentAmount, interestAmount)

\* RowDueDate stepping from the previous row's due date instead of the start date.
RECURSIVE RowDueDateStepwise(_, _, _)
RowDueDateStepwise(startDate, i, monthsToAdd) ==
    IF i = 0 THEN startDate
    ELSE addMonths(RowDueDateStepwise(startDate, i - 1, monthsToAdd), monthsToAdd)

\* RowDueDate without the row index: one instalment period after the start date.
RowDueDateFromStart(startDate, i, monthsToAdd) == addMonths(startDate, monthsToAdd)

\* Due date of row i (0-based).
RowDueDate(startDate, i, monthsToAdd) == addMonths(startDate, i * monthsToAdd)

\* Row i (0-based) of the schedule, the balance before it being remainingBalance.
ScheduleRow(i, remainingBalance, ratePerPeriod, instalmentAmount, startDate, monthsToAdd) ==
    Bind1(RowInterest(remainingBalance, ratePerPeriod), LAMBDA interestAmount :
    Bind1(RowPrincipal(instalmentAmount, interestAmount), LAMBDA principalAmount :
        [installmentNumber |-> i + 1,
         dueDate |-> RowDueDate(startDate, i, monthsToAdd),
         principalAmount |-> principalAmount,
         interestAmount |-> interestAmount,
         totalInstallment |-> instalmentAmount,
         principalBalance |-> Sub(remainingBalance, principalAmount)]))

\* Rows i .. n-1 of the schedule, the balance before row i being remainingBalance.
RECURSIVE ScheduleFrom(_, _, _, _, _, _, _)
ScheduleFrom(i, n, remainingBalance, ratePerPeriod, instalmentAmount, startDate, monthsToAdd) ==
    IF i >= n THEN <<>>
    ELSE Bind1(ScheduleRow(i, remainingBalance, ratePerPeriod, instalmentAmount,
                           startDate, monthsToAdd),
               LAMBDA row :
                   <<row>> \o ScheduleFrom(i + 1, n, row.principalBalance, ratePerPeriod,
                                           instalmentAmount, startDate, monthsToAdd))

AmortizationSchedule(principal, instalmentAmount, ratePerPeriod, n, startDate, monthsToAdd) ==
    ScheduleFrom(0, n, principal, ratePerPeriod, instalmentAmount, startDate, monthsToAdd)

\* ------------------------------------------------------------------ arrays
Min(a, b) == IF a < b THEN a ELSE b
Max(a, b) == IF a < b THEN b ELSE a

\* Slice reading its second argument as a count of elements, as splice does.
SliceByCount(arr, start, end) ==
    LET len == Len(arr)
        from == IF start < 0 THEN Max(len + start, 0) ELSE Min(start, len)
        to == Min(from + Max(end, 0), len)
    IN  IF to <= from THEN <<>> ELSE SubSeq(arr, from + 1, to)

\* Array.prototype.slice(start, end): a negative index counts from the end.
Slice(arr, start, end) ==
    LET len == Len(arr)
        from == IF start < 0 THEN Max(len + start, 0) ELSE Min(start, len)
        to == IF end < 0 THEN Max(len + end, 0) ELSE Min(end, len)
    IN  IF to <= from THEN <<>> ELSE SubSeq(arr, from + 1, to)

\* The sum of a field over the first i rows, added from the first row on.
RECURSIVE SumUpTo(_, _, _)
SumUpTo(rows, i, field) ==
    IF i = 0 THEN Zero ELSE Add(SumUpTo(rows, i - 1, field), rows[i][field])

\* reduce((sum, row) => sum + row[field], 0)
SumField(rows, field) == Bind1(rows, LAMBDA r : SumUpTo(r, Len(r), field))

\* DueRows without the rows due on the as-of date itself.
DueRowsBefore(sched, upToDate) ==
    SelectSeq(sched, LAMBDA row : DateLe(row.dueDate, upToDate) /\ row.dueDate # upToDate)

\* filter(row => row.dueDate <= upToDate)
DueRows(sched, upToDate) == SelectSeq(sched, LAMBDA row : DateLe(row.dueDate, upToDate))

\* FindIndexBelow with <= for <.
FindIndexBelowOrEqual(sched, principalOut) ==
    LET hits == {i \in 1..Len(sched) :
                    \/ Lt(sched[i].principalBalance, principalOut)
                    \/ sched[i].principalBalance = principalOut}
    IN  IF hits = {} THEN -1 ELSE (CHOOSE i \in hits : \A j \in hits : i <= j) - 1

\* FindIndexBelow as findLastIndex: the last row below, not the first.
FindLastIndexBelow(sched, principalOut) ==
    LET hits == {i \in 1..Len(sched) : Lt(sched[i].principalBalance, principalOut)}
    IN  IF hits = {} THEN -1 ELSE (CHOOSE i \in hits : \A j \in hits : j <= i) - 1

\* findIndex(row => row.principalBalance < principalOut): 0-based, -1 if none.
FindIndexBelow(sched, principalOut) ==
    LET hits == {i \in 1..Len(sched) : Lt(sched[i].principalBalance, principalOut)}
    IN  IF hits = {} THEN -1 ELSE (CHOOSE i \in hits : \A j \in hits : i <= j) - 1

\* ------------------------------------------------------------------- state
VARIABLES
    page,       \* the mounted page: "home", "loan", "dcb" or "deposit"
    dcb,        \* DCB calculator: the form fields
    results,    \* DCB calculator: the stored result, or Null
    toast,      \* DCB calculator: the last toast, "none", "error" or "success"
    thrown,     \* DCB calculator: the last calculate ended in an uncaught TypeError
    loan,       \* loan calculator: the form fields
    emi,        \* loan calculator: the stored instalment amount, or Null
    lastDate,   \* loan calculator: the stored last instalment date, or Null
    schedule,   \* loan calculator: the stored schedule
    deposit,    \* deposit calculator: the form fields
    result,     \* deposit calculator: the stored result, or Null
    table,      \* deposit calculator: the stored month table
    rateQuery,  \* period-rate resolver: the arguments of a call
    resolved,   \* period-rate resolver: what the two copies returned, or Null
    requested,  \* history: the form of the request that stored what the page holds, or Null
    memo        \* history: a form requested earlier on the page and what was stored for it, or Null

vars == <<page, dcb, results, toast, thrown, loan, emi, lastDate, schedule,
          deposit, result, table, rateQuery, resolved, requested, memo>>
dcbVars == <<dcb, results, toast, thrown>>
loanVars == <<loan, emi, lastDate, schedule>>
depositVars == <<deposit, result, table>>
rateVars == <<rateQuery, resolved>>
historyVars == <<requested, memo>>

\* The DCB form as useState leaves it on mount.
DCBEmptyForm ==
    [loanAmount |-> Null, sanctionDate |-> Null, interestRate |-> Null,
     numInstalments |-> Null, instalmentFreq |-> "", loanPeriod |-> Null,
     interestAppFreq |-> "", instalmentStartDate |-> Null, upToDate |-> Null,
     inputOption |-> "instalments", instalmentsPaid |-> Null,
     principalOutstanding |-> Null, interestOutstanding |-> Null,
     principalCollection |-> Null, interestCollection |-> Null]

\* The loan form as useState leaves it on mount.
LoanEmptyForm ==
    [loanAmount |-> Null, sanctionDate |-> Null, interestRate |-> Null,
     numInstalments |-> Null, instalmentFreq |-> "", loanPeriod |-> Null,
     interestAppFreq |-> "", instalmentStartDate |-> Null]

\* The deposit form as useState leaves it on mount.
DepositEmptyForm ==
    [principal |-> Null, monthly |-> Null, months |-> Null, rate |-> Null,
     comp |-> "", paymentMethod |-> "maturity"]

\* ------------------------------------------------------- DCB handleCalculate
\* DCBMissingField without the loan period, as the loan page validates.
DCBMissingFieldNoLoanPeriod(f) ==
    \/ f.loanAmount = Null \/ f.sanctionDate = Null \/ f.interestRate = Null
    \/ f.numInstalments = Null \/ f.instalmentFreq = ""
    \/ f.interestAppFreq = "" \/ f.instalmentStartDate = Null \/ f.upToDate = Null

\* The validation of the DCB form: some required field is empty.
DCBMissingField(f) ==
    \/ f.loanAmount = Null \/ f.sanctionDate = Null \/ f.interestRate = Null
    \/ f.numInstalments = Null \/ f.instalmentFreq = "" \/ f.loanPeriod = Null
    \/ f.interestAppFreq = "" \/ f.instalmentStartDate = Null \/ f.upToDate = Null

\* InstalmentsPaidNum taking a typed paid count in every mode.
InstalmentsPaidNumTypedFirst(f, principal, sched) ==
    IF f.inputOption = "instalments" \/ f.instalmentsPaid # Null
    THEN OrZero(parseInt(f.instalmentsPaid))[1]
    ELSE Bind1(IF f.inputOption = "outstanding"
               THEN OrZero(parseFloat(f.principalOutstanding))
               ELSE Sub(principal, OrZero(parseFloat(f.principalCollection))),
               LAMBDA principalOut :
                   Bind1(FindIndexBelow(sched, principalOut),
                         LAMBDA idx : IF idx = -1 THEN 0 ELSE idx))

\* The paid count k of the selected mode.
InstalmentsPaidNum(f, principal, sched) ==
    IF f.inputOption = "instalments"
    THEN OrZero(parseInt(f.instalmentsPaid))[1]
    ELSE Bind1(IF f.inputOption = "outstanding"
               THEN OrZero(parseFloat(f.principalOutstanding))
               ELSE Sub(principal, OrZero(parseFloat(f.principalCollection))),
               LAMBDA principalOut :
                   Bind1(FindIndexBelow(sched, principalOut),
                         LAMBDA idx : IF idx = -1 THEN 0 ELSE idx))

\* OutstandingOverduePrincipal without the clamp at 0.
OutstandingOverduePrincipalUnclamped(totalPrincipalBalance, remainingPrincipal) ==
    Sub(totalPrincipalBalance, remainingPrincipal)

\* Overdue principal of the outstanding mode.
OutstandingOverduePrincipal(totalPrincipalBalance, remainingPrincipal) ==
    MathMax(Zero, Sub(totalPrincipalBalance, remainingPrincipal))

\* CollectionOverdue without the clamp at 0.
CollectionOverdueUnclamped(demanded, collected) == Sub(demanded, collected)

\* Overdue amount of the collection mode.
CollectionOverdue(demanded, collected) == MathMax(Zero, Sub(demanded, collected))

\* Balance with the operands exchanged.
BalanceExchanged(demand, collection) == Sub(collection, demand)

\* demand - collection
Balance(demand, collection) == Sub(demand, collection)

\* ReadsOverdueRow without the test that some instalment is overdue.
ReadsOverdueRowAnyCount(overdueInstalments, k, sched) == k < Len(sched)

\* The first unpaid instalment's due date is read from row k of the schedule.
ReadsOverdueRow(overdueInstalments, k, sched) == overdueInstalments > 0 /\ k < Len(sched)

\* Remaining with the overdue part left in.
RemainingOverdueKept(total, paid, overdue) == Sub(total, paid)

\* The part of a total neither paid nor overdue: total - paid - overdue.
Remaining(total, paid, overdue) == Sub(Sub(total, paid), overdue)

\* The numbers handleCalculate parses from the form, and the period rate.
DCBInputs(f) ==
    Bind1(getMonthsToAdd(f.instalmentFreq), LAMBDA monthsToAdd :
        [principal |-> parseFloat(f.loanAmount),
         totalInstalments |-> parseInt(f.numInstalments)[1],
         monthsToAdd |-> monthsToAdd,
         ratePerPeriod |-> getRatePerPeriod(Div(parseFloat(f.interestRate), Num(100)),
                                            f.interestAppFreq, monthsToAdd),
         principalOut |-> IF f.inputOption = "outstanding"
                          THEN OrZero(parseFloat(f.principalOutstanding)) ELSE Zero,
         interestOut |-> IF f.inputOption = "outstanding"
                         THEN OrZero(parseFloat(f.interestOutstanding)) ELSE Zero,
         principalColl |-> IF f.inputOption = "collection"
                           THEN OrZero(parseFloat(f.principalCollection)) ELSE Zero,
         interestColl |-> IF f.inputOption = "collection"
                          THEN OrZero(parseFloat(f.interestCollection)) ELSE Zero])

\* The sums handleCalculate takes over the schedule, k instalments being
\* paid and the first instalmentsDue rows being due.
DCBSums(f, sched, instalmentsDue, k) ==
    Bind3(Slice(sched, 0, k), Slice(sched, k, instalmentsDue), DueRows(sched, f.upToDate),
          LAMBDA paidInstalments, overdueSchedule, dueRows :
              [paidPrincipal |-> SumField(paidInstalments, "principalAmount"),
               paidInterest |-> SumField(paidInstalments, "interestAmount"),
               overduePrincipal |-> SumField(overdueSchedule, "principalAmount"),
               overdueInterest |-> SumField(overdueSchedule, "interestAmount"),
               totalInterest |-> SumField(sched, "interestAmount"),
               principalDemand |-> SumField(dueRows, "principalAmount"),
               interestDemand |-> SumField(dueRows, "interestAmount")])

\* The amounts handleCalculate derives from the sums.
DCBAmounts(f, in, sums) ==
    Bind2(Remaining(in.principal, sums.paidPrincipal, sums.overduePrincipal),
          Add(sums.principalDemand, sums.interestDemand),
          LAMBDA remainingPrincipal, demand :
              [remainingPrincipal |-> remainingPrincipal,
               remainingInterest |->
                   Remaining(sums.totalInterest, sums.paidInterest, sums.overdueInterest),
               demand |-> demand,
               collection |-> Add(sums.paidPrincipal, sums.paidInterest),
               totalPrincipalBalance |->
                   IF f.inputOption = "outstanding" THEN in.principalOut
                   ELSE Sub(in.principal, sums.paidPrincipal),
               totalInterestBalance |->
                   IF f.inputOption = "outstanding" THEN in.interestOut
                   ELSE Sub(sums.interestDemand, sums.paidInterest),
               overduePrincipal |->
                   CASE f.inputOption = "outstanding" ->
                            OutstandingOverduePrincipal(in.principalOut, remainingPrincipal)
                     [] f.inputOption = "collection" ->
                            CollectionOverdue(sums.principalDemand, in.principalColl)
                     [] OTHER -> sums.overduePrincipal,
               overdueInterest |->
                   CASE f.inputOption = "outstanding" -> in.interestOut
                     [] f.inputOption = "collection" ->
                            CollectionOverdue(sums.interestDemand, in.interestColl)
                     [] OTHER -> sums.overdueInterest])

\* What handleCalculate ends with, given the schedule and the amounts:
\* [threw |-> TRUE] when reading row k of the schedule raises a TypeError,
\* else [threw |-> FALSE, value |-> the result it stores].
DCBOutcome(f, in, instalmentAmount, sched, instalmentsDue, k, sums, am) ==
    LET overdueInstalments == Max(0, instalmentsDue - k)
        readsRow == ReadsOverdueRow(overdueInstalments, k, sched)
        overdueSinceDate == IF readsRow THEN sched[k + 1].dueDate ELSE Null
        overdueDays ==
            IF overdueSinceDate # Null
            THEN Num(Max(0, differenceInDays(f.upToDate, overdueSinceDate)))
            ELSE Null
    IN  IF readsRow /\ k < 0
        THEN [threw |-> TRUE]
        ELSE [threw |-> FALSE,
              value |->
                [instalmentAmount |-> instalmentAmount,
                 emiPerMonth |-> Div(instalmentAmount, Num(in.monthsToAdd)),
                 principalDemand |-> sums.principalDemand,
                 interestDemand |-> sums.interestDemand,
                 overduePrincipal |-> am.overduePrincipal,
                 overdueInterest |-> am.overdueInterest,
                 installmentsToBePaid |-> overdueInstalments,
                 outstandingPrincipal |-> am.remainingPrincipal,
                 outstandingInterest |-> am.remainingInterest,
                 totalPrincipalBalance |-> am.totalPrincipalBalance,
                 totalInterestBalance |-> am.totalInterestBalance,
                 overdueSinceDate |-> overdueSinceDate,
                 overdueDays |-> overdueDays,
                 demand |-> am.demand,
                 collection |-> am.collection,
                 balance |-> Balance(am.demand, am.collection),
                 amortizationSchedule |-> sched]]

\* What handleCalculate computes from a form that passed validation, each
\* const of the code evaluated once, in the code's order.
DCBCompute(f) ==
    Bind1(DCBInputs(f), LAMBDA in :
    Bind1(InstalmentAmount(in.principal, in.ratePerPeriod, in.totalInstalments),
          LAMBDA instalmentAmount :
    Bind1(AmortizationSchedule(in.principal, instalmentAmount, in.ratePerPeriod,
                               in.totalInstalments, f.instalmentStartDate, in.monthsToAdd),
          LAMBDA sched :
    Bind2(Len(DueRows(sched, f.upToDate)), InstalmentsPaidNum(f, in.principal, sched),
          LAMBDA instalmentsDue, k :
    Bind1(DCBSums(f, sched, instalmentsDue, k), LAMBDA sums :
    Bind1(DCBAmounts(f, in, sums), LAMBDA am :
        DCBOutcome(f, in, instalmentAmount, sched, instalmentsDue, k, sums, am)))))))

\* The Calculate button of the DCB page.
DCBCalculate ==
    /\ page = "dcb"
    /\ IF DCBMissingField(dcb)
       THEN /\ toast' = "error"
            /\ thrown' = FALSE
            /\ UNCHANGED <<results, requested>>
       ELSE \E out \in {DCBCompute(dcb)} :
                IF out.threw
                THEN /\ thrown' = TRUE
                     /\ UNCHANGED <<results, toast, requested>>
                ELSE /\ results' = out.value
                     /\ toast' = "success"
                     /\ thrown' = FALSE
                     /\ requested' = dcb
    /\ UNCHANGED <<page, dcb, loanVars, depositVars, rateVars, memo>>

\* ------------------------------------------------------ loan handleCalculate
\* LoanGetMonthsToAdd with one month for every frequency.
LoanGetMonthsToAddMonthly(frequency) == 1

LoanGetMonthsToAdd(frequency) ==
    CASE frequency = "monthly" -> 1
      [] frequency = "quarterly" -> 3
      [] frequency = "half-yearly" -> 6
      [] frequency = "yearly" -> 12
      [] OTHER -> 1

LoanPeriodsPerYear(freq) ==
    CASE freq = "daily" -> 365
      [] freq = "monthly" -> 12
      [] freq = "quarterly" -> 4
      [] freq = "half-yearly" -> 2
      [] freq = "yearly" -> 1
      [] OTHER -> 1

LoanGetRatePerPeriod(annual, freq, instMonths) ==
    LET tYears == Div(Num(instMonths), Num(12))
    IN  IF freq = "no-compound"
        THEN Mul(annual, tYears)
        ELSE LET periodsPerYear == Num(LoanPeriodsPerYear(freq))
             IN  Sub(MathPow(Add(One, Div(annual, periodsPerYear)),
                             Mul(periodsPerYear, tYears)),
                     One)

LoanInstalmentAmount(principal, r, n) ==
    Div(Mul(Mul(principal, r), PowInt(Add(One, r), n)),
        Sub(PowInt(Add(One, r), n), One))

\* Row i (0-based) of the loan calculator's schedule.
LoanRow(i, balance, r, instalmentAmount, startDate, months) ==
    Bind1(Mul(balance, r), LAMBDA interestAmount :
    Bind1(Sub(instalmentAmount, interestAmount), LAMBDA principalAmount :
    Bind1(Sub(balance, principalAmount), LAMBDA nextBalance :
        [installmentNumber |-> i + 1,
         dueDate |-> addMonths(startDate, i * months),
         principalAmount |-> principalAmount,
         interestAmount |-> interestAmount,
         totalInstallment |-> instalmentAmount,
         principalBalance |-> nextBalance])))

\* Rows i .. n-1 of the loan calculator's schedule.
RECURSIVE LoanRowsFrom(_, _, _, _, _, _, _)
LoanRowsFrom(i, n, balance, r, instalmentAmount, startDate, months) ==
    IF i >= n THEN <<>>
    ELSE Bind1(LoanRow(i, balance, r, instalmentAmount, startDate, months),
               LAMBDA row :
                   <<row>> \o LoanRowsFrom(i + 1, n, row.principalBalance, r,
                                           instalmentAmount, startDate, months))

\* The validation of the loan form: some required field is empty.
LoanMissingField(f) ==
    \/ f.loanAmount = Null \/ f.sanctionDate = Null \/ f.interestRate = Null
    \/ f.numInstalments = Null \/ f.instalmentFreq = ""
    \/ f.interestAppFreq = "" \/ f.instalmentStartDate = Null

\* What the loan calculator stores for a form that passed validation.
LoanCompute(f) ==
    Bind3(parseFloat(f.loanAmount), parseInt(f.numInstalments)[1],
          LoanGetMonthsToAdd(f.instalmentFreq),
          LAMBDA principal, n, months :
    Bind1(LoanGetRatePerPeriod(Div(parseFloat(f.interestRate), Num(100)),
                               f.interestAppFreq, months),
          LAMBDA r :
    Bind1(LoanInstalmentAmount(principal, r, n), LAMBDA instalmentAmount :
        [emi |-> instalmentAmount,
         lastDate |-> addMonths(f.instalmentStartDate, (n - 1) * months),
         schedule |-> LoanRowsFrom(0, n, principal, r, instalmentAmount,
                                   f.instalmentStartDate, months)])))

\* The Calculate button of the loan page.
LoanCalculate ==
    /\ page = "loan"
    /\ IF LoanMissingField(loan)
       THEN UNCHANGED <<emi, lastDate, schedule, requested>>
       ELSE \E out \in {LoanCompute(loan)} :
                /\ emi' = out.emi
                /\ lastDate' = out.lastDate
                /\ schedule' = out.schedule
                /\ requested' = loan
    /\ UNCHANGED <<page, loan, dcbVars, depositVars, rateVars, memo>>

\* ------------------------------------------------------- deposit handleCalc
\* compoundsPerYear taking an unselected compounding as no compounding.
compoundsPerYearDefaultNone(comp) ==
    CASE comp = "daily" -> 365
      [] comp = "monthly" -> 12
      [] comp = "quarterly" -> 4
      [] comp = "half-yearly" -> 2
      [] comp = "yearly" -> 1
      [] OTHER -> 0

compoundsPerYear(comp) ==
    CASE comp = "daily" -> 365
      [] comp = "monthly" -> 12
      [] comp = "quarterly" -> 4
      [] comp = "half-yearly" -> 2
      [] comp = "yearly" -> 1
      [] comp = "no-compound" -> 0
      [] OTHER -> 12

\* The numbers handleCalc parses from the form.
DepositInputs(f) ==
    Bind1(OrZero(parseFloat(f.rate)), LAMBDA ratePct :
        [P |-> OrZero(parseFloat(f.principal)),
         D |-> OrZero(parseFloat(f.monthly)),
         nMonths |-> Max(0, OrZero(parseInt(f.months))[1]),
         ratePct |-> ratePct,
         rNominal |-> Div(ratePct, Num(100)),
         m |-> compoundsPerYear(f.comp)])

\* APY: the nominal rate compounded m times a year, the nominal rate when m = 0.
Apy(rNominal, m) ==
    IF m > 0 THEN Sub(MathPow(Add(One, Div(rNominal, Num(m))), Num(m)), One)
    ELSE rNominal

\* Effective monthly rate j.
EffectiveMonthlyRate(rNominal, m) ==
    IF m > 0 THEN Sub(MathPow(Add(One, Div(rNominal, Num(m))), Div(Num(m), Num(12))), One)
    ELSE Div(rNominal, Num(12))

\* PayoutInterest at a twelfth of the nominal rate: base * ratePct / 1200.
PayoutInterestNominal(base, ratePct) == Div(Mul(base, ratePct), Num(1200))

\* Interest of one month paid out: base * 1 * ratePct / (1200 + ratePct).
PayoutInterest(base, ratePct) ==
    Div(Mul(Mul(base, One), ratePct), Add(Num(1200), ratePct))

\* PayoutBalance with the interest added to the balance.
PayoutBalanceCompounded(base, interest) == Add(base, interest)

\* Balance after a month whose interest is paid out.
PayoutBalance(base, interest) == base

\* SimpleInterest at the yearly rate in place of the monthly one.
SimpleInterestYearly(base, jSimple) == Mul(base, Mul(jSimple, Num(12)))

\* Simple interest of one month.
SimpleInterest(base, jSimple) == Mul(base, jSimple)

\* Interest of one month that is retained.
CompoundInterest(base, j) == Mul(base, j)

\* The branch of handleCalc a form takes: "payout" (monthly interest paid
\* out), "simple" (maturity, no compounding) or "compound".
DepositBranch(paymentMethod, m) ==
    IF paymentMethod = "monthly-interest" THEN "payout"
    ELSE IF m = 0 THEN "simple" ELSE "compound"

\* The month's interest and the balance after the month, in each branch;
\* x is ratePct, jSimple or j.
MonthInterest(branch, base, x) ==
    CASE branch = "payout" -> PayoutInterest(base, x)
      [] branch = "simple" -> SimpleInterest(base, x)
      [] branch = "compound" -> CompoundInterest(base, x)
MonthBalance(branch, base, interest) ==
    CASE branch = "payout" -> PayoutBalance(base, interest)
      [] branch = "simple" -> base
      [] branch = "compound" -> Add(base, interest)

\* StartBalance carried over from the table of the calculation before.
StartBalanceCarried(P) == IF table = <<>> THEN P ELSE table[Len(table)].balance

\* The balance the month loop starts from.
StartBalance(P) == P

\* The row of one month, the balance and cumulative interest before it given.
DepositRow(month, balance, cumInterest, D, branch, x) ==
    Bind1(Add(balance, D), LAMBDA base :
    Bind1(MonthInterest(branch, base, x), LAMBDA interest :
        [month |-> month,
         contribution |-> D,
         interest |-> Add(cumInterest, interest),
         balance |-> MonthBalance(branch, base, interest)]))

\* The rows of months month .. nMonths.
RECURSIVE DepositRowsFrom(_, _, _, _, _, _, _)
DepositRowsFrom(month, nMonths, balance, cumInterest, D, branch, x) ==
    IF month > nMonths THEN <<>>
    ELSE Bind1(DepositRow(month, balance, cumInterest, D, branch, x),
               LAMBDA row :
                   <<row>> \o DepositRowsFrom(month + 1, nMonths, row.balance, row.interest,
                                              D, branch, x))

\* FvLump growing simply: P * (1 + j * nMonths).
FvLumpSimple(P, j, nMonths) == Mul(P, Add(One, Mul(j, Num(nMonths))))

\* Future value of the principal after nMonths.
FvLump(P, j, nMonths) == Mul(P, MathPow(Add(One, j), Num(nMonths)))

\* FvMonthly as an ordinary annuity: deposits at the end of the month.
FvMonthlyOrdinaryAnnuity(D, j, nMonths) ==
    IF Lt(Zero, D) /\ j # Zero
    THEN Mul(D, Div(Sub(MathPow(Add(One, j), Num(nMonths)), One), j))
    ELSE Mul(D, Num(nMonths))

\* Future value of the monthly deposits, an annuity-due.
FvMonthly(D, j, nMonths) ==
    IF Lt(Zero, D) /\ j # Zero
    THEN Mul(Mul(D, Div(Sub(MathPow(Add(One, j), Num(nMonths)), One), j)), Add(One, j))
    ELSE Mul(D, Num(nMonths))

\* The result of a branch, given the rows; x is ratePct, jSimple or j.
DepositResult(in, branch, x, rows) ==
    Bind3(Add(in.P, Mul(in.D, Num(in.nMonths))),
          IF rows = <<>> THEN StartBalance(in.P) ELSE rows[Len(rows)].balance,
          IF rows = <<>> THEN Zero ELSE rows[Len(rows)].interest,
          LAMBDA totalPrincipal, balance, cumInterest :
    Bind1(CASE branch = "payout" -> balance
            [] branch = "simple" -> Add(balance, cumInterest)
            [] branch = "compound" ->
                   Add(FvLump(in.P, x, in.nMonths), FvMonthly(in.D, x, in.nMonths)),
          LAMBDA maturityValue :
        [totalPrincipal |-> totalPrincipal,
         interestAmount |-> IF branch = "compound"
                            THEN MathMax(Zero, Sub(maturityValue, totalPrincipal))
                            ELSE cumInterest,
         maturityValue |-> maturityValue,
         apy |-> Apy(in.rNominal, in.m)]))

\* What handleCalc stores.  j enters the compound branch only; elsewhere the
\* code computes it and leaves it unused.
DepositCompute(f) ==
    Bind1(DepositInputs(f), LAMBDA in :
    Bind1(DepositBranch(f.paymentMethod, in.m), LAMBDA branch :
    Bind1(CASE branch = "payout" -> in.ratePct
            [] branch = "simple" -> Div(in.rNominal, Num(12))
            [] branch = "compound" -> EffectiveMonthlyRate(in.rNominal, in.m),
          LAMBDA x :
    Bind1(DepositRowsFrom(1, in.nMonths, StartBalance(in.P), Zero, in.D, branch, x),
          LAMBDA rows :
        [table |-> rows, result |-> DepositResult(in, branch, x, rows)]))))

\* The Calculate button of the deposit page.
DepositCalc ==
    /\ page = "deposit"
    /\ \E out \in {DepositCompute(deposit)} :
          /\ table' = out.table
          /\ result' = out.result
    /\ requested' = deposit
    /\ UNCHANGED <<page, deposit, dcbVars, loanVars, rateVars, memo>>

\* The Reset button of the deposit page.
DepositReset ==
    /\ page = "deposit"
    /\ deposit' = DepositEmptyForm
    /\ result' = Null
    /\ table' = <<>>
    /\ requested' = Null
    /\ UNCHANGED <<page, dcbVars, loanVars, rateVars, memo>>

\* ----------------------------------------------------- period-rate resolver
\* A call of getRatePerPeriod in each of its two copies.
ResolveRate ==
    /\ rateQuery # Null
    /\ resolved = Null
    /\ resolved' = [dcb |-> getRatePerPeriod(rateQuery.annualRate, rateQuery.frequency,
                                             rateQuery.months),
                    loan |-> LoanGetRatePerPeriod(rateQuery.annualRate, rateQuery.frequency,
                                                  rateQuery.months)]
    /\ UNCHANGED <<page, rateQuery, dcbVars, loanVars, depositVars, historyVars>>

\* ------------------------------------------------------- editing the forms
\* What can be put into each field of the DCB form: a number field takes a
\* number or is cleared; a select takes one of its options and a date field
\* a date, and neither can be emptied again.
DCBFieldValues ==
    [loanAmount |-> {Null, Num(3800)},
     sanctionDate |-> {<<2023, 11, 1>>},
     interestRate |-> {Null, Num(600)},
     numInstalments |-> {Null, Num(2), Num(3)},
     instalmentFreq |-> {"monthly"},
     loanPeriod |-> {Null, Num(1)},
     interestAppFreq |-> {"no-compound"},
     instalmentStartDate |-> {<<2024, 1, 31>>},
     upToDate |-> {<<2024, 2, 29>>},
     instalmentsPaid |-> {Null, Num(1)}]

LoanFieldValues ==
    [loanAmount |-> {Null, Num(3800)},
     sanctionDate |-> {<<2023, 11, 1>>},
     interestRate |-> {Null, Num(600)},
     numInstalments |-> {Null, Num(2), Num(3)},
     instalmentFreq |-> {"monthly"},
     loanPeriod |-> {Null, Num(1)},
     interestAppFreq |-> {"no-compound"},
     instalmentStartDate |-> {<<2024, 1, 31>>}]

DepositFieldValues ==
    [principal |-> {Null, Num(1200)},
     months |-> {Null, Num(2)},
     rate |-> {Null, Num(600)},
     comp |-> {"monthly"},
     paymentMethod |-> {"monthly-interest", "maturity"}]

\* A change of one field of the DCB form.
DCBSetField ==
    /\ page = "dcb"
    /\ \E fld \in DOMAIN DCBFieldValues : \E v \in DCBFieldValues[fld] :
          dcb' = [dcb EXCEPT ![fld] = v]
    /\ UNCHANGED <<page, results, toast, thrown, loanVars, depositVars, rateVars, historyVars>>

\* A change of one field of the loan form.
LoanSetField ==
    /\ page = "loan"
    /\ \E fld \in DOMAIN LoanFieldValues : \E v \in LoanFieldValues[fld] :
          loan' = [loan EXCEPT ![fld] = v]
    /\ UNCHANGED <<page, emi, lastDate, schedule, dcbVars, depositVars, rateVars, historyVars>>

\* A change of one field of the deposit form.
DepositSetField ==
    /\ page = "deposit"
    /\ \E fld \in DOMAIN DepositFieldValues : \E v \in DepositFieldValues[fld] :
          deposit' = [deposit EXCEPT ![fld] = v]
    /\ UNCHANGED <<page, result, table, dcbVars, loanVars, rateVars, historyVars>>

\* What the mounted page holds from its last request.
Stored ==
    CASE page = "dcb" -> <<results>>
      [] page = "loan" -> <<emi, lastDate, schedule>>
      [] page = "deposit" -> <<result, table>>
      [] OTHER -> <<>>

\* History: note the form last requested and what the page holds for it.
Remember ==
    /\ requested # Null
    /\ memo' = [form |-> requested, stored |-> Stored]
    /\ UNCHANGED <<page, dcbVars, loanVars, depositVars, rateVars, requested>>

\* --------------------------------------------------------------- navigation
Pages == {"home", "loan", "dcb", "deposit"}

\* A link to another page: the page left is unmounted and its state is gone,
\* the page entered mounts with its initial state.
Navigate(to) ==
    /\ to # page
    /\ page' = to
    /\ dcb' = DCBEmptyForm
    /\ results' = Null
    /\ toast' = "none"
    /\ thrown' = FALSE
    /\ loan' = LoanEmptyForm
    /\ emi' = Null
    /\ lastDate' = Null
    /\ schedule' = <<>>
    /\ deposit' = DepositEmptyForm
    /\ result' = Null
    /\ table' = <<>>
    /\ requested' = Null
    /\ memo' = Null
    /\ UNCHANGED rateVars

\* ------------------------------------------------------------- typed inputs
Principals == {Num(3800)}
RatesPercent == {Num(0), Num(600)}
Counts == {Num(i) : i \in 0..MaxN}
InstalmentFreqs == {"monthly", "quarterly", "half-yearly", "yearly"}
InterestFreqs == {"daily", "monthly", "quarterly", "half-yearly", "yearly", "no-compound"}
StartDates == {<<2024, 1, 31>>, <<2023, 11, 15>>}
AsOfDates == {<<2023, 11, 14>>, <<2024, 2, 29>>, <<2024, 8, 15>>, <<2031, 1, 1>>}
SanctionDate == <<2023, 11, 1>>
LoanPeriod == Num(1)
PaidCounts == {Null, Num(-1), Num(0), Num(1), Num(2), Num(3), Num(5)}
PrincipalOutstandings == {Null, Num(-500), Num(1800), Num(3000), Num(3800), Num(5000)}
InterestOutstandings == {Null, Num(250), Num(-100)}
PrincipalCollections == {Null, Num(800), Num(2000), Num(3800), Num(4000)}
InterestCollections == {Null, Num(1900), Num(5000)}

\* The rate, frequency and count selections.  With a rate above 0 the
\* amounts must be rational numbers within the integers' width: interest is
\* simple, or the instalment period is a whole number of compounding periods
\* and the loan (at least one instalment period) spans at most MaxN of them.  With the rate 0 every frequency
\* gives the period rate 0; one compounding and the simple selection stand
\* for all.
Selections ==
    {<<a, fi, fa, n>> \in RatesPercent \X InstalmentFreqs \X InterestFreqs \X Counts :
        IF a = Zero
        THEN fa \in {"daily", "no-compound"}
        ELSE \/ fa = "no-compound"
             \/ /\ (PeriodsPerYear(fa) * getMonthsToAdd(fi)) % 12 = 0
                /\ ((PeriodsPerYear(fa) * getMonthsToAdd(fi)) \div 12) * Max(n[1], 1) <= MaxN}

LoanForms ==
    {[loanAmount |-> p, sanctionDate |-> SanctionDate, interestRate |-> sel[1],
      numInstalments |-> sel[4], instalmentFreq |-> sel[2], loanPeriod |-> LoanPeriod,
      interestAppFreq |-> sel[3], instalmentStartDate |-> s] :
        p \in Principals, sel \in Selections, s \in StartDates}

\* The inputs of the three modes; the fields of the modes not selected are empty.
ModeInputs ==
    {[inputOption |-> "instalments", instalmentsPaid |-> k,
      principalOutstanding |-> Null, interestOutstanding |-> Null,
      principalCollection |-> Null, interestCollection |-> Null] : k \in PaidCounts}
    \cup
    {[inputOption |-> "outstanding", instalmentsPaid |-> Null,
      principalOutstanding |-> po, interestOutstanding |-> io,
      principalCollection |-> Null, interestCollection |-> Null] :
        po \in PrincipalOutstandings, io \in InterestOutstandings}
    \cup
    {[inputOption |-> "collection", instalmentsPaid |-> Null,
      principalOutstanding |-> Null, interestOutstanding |-> Null,
      principalCollection |-> pc, interestCollection |-> ic] :
        pc \in PrincipalCollections, ic \in InterestCollections}

\* ---------------------------------------------------------- specification
\* A page is mounted and its form has been typed in; nothing is calculated yet.
Init ==
    /\ page \in {"loan", "dcb"}
    /\ results = Null
    /\ toast = "none"
    /\ thrown = FALSE
    /\ emi = Null
    /\ lastDate = Null
    /\ schedule = <<>>
    /\ deposit = DepositEmptyForm
    /\ result = Null
    /\ table = <<>>
    /\ rateQuery = Null
    /\ resolved = Null
    /\ requested = Null
    /\ memo = Null
    /\ IF page = "loan"
       THEN /\ dcb = DCBEmptyForm
            /\ loan \in LoanForms
       ELSE /\ loan = LoanEmptyForm
            /\ \E f \in LoanForms, u \in AsOfDates, mi \in ModeInputs :
                 dcb = [loanAmount |-> f.loanAmount,
                           sanctionDate |-> f.sanctionDate,
                           interestRate |-> f.interestRate,
                           numInstalments |-> f.numInstalments,
                           instalmentFreq |-> f.instalmentFreq,
                           loanPeriod |-> f.loanPeriod,
                           interestAppFreq |-> f.interestAppFreq,
                           instalmentStartDate |-> f.instalmentStartDate,
                           upToDate |-> u,
                           inputOption |-> mi.inputOption,
                           instalmentsPaid |-> mi.instalmentsPaid,
                           principalOutstanding |-> mi.principalOutstanding,
                           interestOutstanding |-> mi.interestOutstanding,
                           principalCollection |-> mi.principalCollection,
                           interestCollection |-> mi.interestCollection]

Next ==
    \/ DCBCalculate
    \/ LoanCalculate
    \/ \E to \in Pages : Navigate(to)

Spec == Init /\ [][Next]_vars

\* ------------------------------------------------------ deposit calculator
\* Longest deposit term typed, in months.
MaxMonths == 3

DepositPrincipals == {Null, Num(1200)}
DepositMonthlies == {Null, Num(300), Num(-100)}
DepositMonths == {Null, Num(-2)} \cup {Num(i) : i \in 0..MaxMonths}
DepositRates == {Null, Num(600), Num(-1200)}
DepositComps == {"", "daily", "monthly", "quarterly", "half-yearly", "yearly", "no-compound"}
PaymentMethods == {"monthly-interest", "maturity"}

\* The typed deposit forms.  The amounts must be rational numbers within the
\* integers' width: daily compounding goes with the rate 0 only, and a
\* maturity payout at a rate other than 0 compounds monthly or not at all
\* (the monthly rate j is then rNominal / 12).  With them, 100000 at 12% and
\* no monthly deposit, its interest paid out monthly.
DepositForms ==
    {f \in [principal : DepositPrincipals, monthly : DepositMonthlies,
            months : DepositMonths, rate : DepositRates, comp : DepositComps,
            paymentMethod : PaymentMethods] :
        \/ f.rate = Null
        \/ /\ f.comp # "daily"
           /\ f.paymentMethod = "maturity" => f.comp \in {"", "monthly", "no-compound"}}
    \cup
    {[principal |-> Num(100000), monthly |-> Null, months |-> Num(i), rate |-> Num(12),
      comp |-> c, paymentMethod |-> "monthly-interest"] :
        i \in 1..MaxMonths, c \in {"quarterly", "no-compound"}}

\* The deposit page is mounted and its form has been typed in.
InitDeposit ==
    /\ page = "deposit"
    /\ dcb = DCBEmptyForm /\ results = Null /\ toast = "none" /\ thrown = FALSE
    /\ loan = LoanEmptyForm /\ emi = Null /\ lastDate = Null /\ schedule = <<>>
    /\ deposit \in DepositForms
    /\ result = Null
    /\ table = <<>>
    /\ rateQuery = Null
    /\ resolved = Null
    /\ requested = Null
    /\ memo = Null

NextDeposit == DepositCalc \/ DepositReset

SpecDeposit == InitDeposit /\ [][NextDeposit]_vars

\* -------------------------------------------------------- pages in use
\* A page has just been mounted: every form is as useState leaves it.
InitUI ==
    /\ page \in {"loan", "dcb", "deposit"}
    /\ dcb = DCBEmptyForm /\ results = Null /\ toast = "none" /\ thrown = FALSE
    /\ loan = LoanEmptyForm /\ emi = Null /\ lastDate = Null /\ schedule = <<>>
    /\ deposit = DepositEmptyForm /\ result = Null /\ table = <<>>
    /\ rateQuery = Null
    /\ resolved = Null
    /\ requested = Null
    /\ memo = Null

NextUI ==
    \/ DCBSetField
    \/ DCBCalculate
    \/ LoanSetField
    \/ LoanCalculate
    \/ DepositSetField
    \/ DepositCalc
    \/ DepositReset
    \/ Remember
    \/ \E to \in Pages : Navigate(to)

SpecUI == InitUI /\ [][NextUI]_vars

\* ----------------------------------------------------- period-rate resolver
AnnualRates == {Zero, Div(Num(12), Num(100)), Num(6), Num(12)}
PeriodMonths == {1, 3, 6, 12}

\* The calls of the resolver whose value is a rational number within the
\* integers' width: simple interest, the rate 0, or a whole number of
\* compounding periods (at most 4 of them unless 1 + annualRate / p is a
\* whole number or a half); and daily compounding at the one rate that makes
\* 1 + annualRate / 365 zero.
RateQueries ==
    {q \in [annualRate : AnnualRates, frequency : InterestFreqs, months : PeriodMonths] :
        \/ q.frequency = "no-compound"
        \/ q.annualRate = Zero
        \/ /\ q.frequency # "daily"
           /\ (PeriodsPerYear(q.frequency) * q.months) % 12 = 0
           /\ \/ (PeriodsPerYear(q.frequency) * q.months) \div 12 <= 4
              \/ Add(One, Div(q.annualRate, Num(PeriodsPerYear(q.frequency))))[2] <= 2}
    \cup
    {[annualRate |-> Num(-365), frequency |-> "daily", months |-> m] : m \in PeriodMonths}

\* A call of the resolver is about to be made.
InitRate ==
    /\ page = "home"
    /\ dcb = DCBEmptyForm /\ results = Null /\ toast = "none" /\ thrown = FALSE
    /\ loan = LoanEmptyForm /\ emi = Null /\ lastDate = Null /\ schedule = <<>>
    /\ deposit = DepositEmptyForm /\ result = Null /\ table = <<>>
    /\ rateQuery \in RateQueries
    /\ resolved = Null
    /\ requested = Null
    /\ memo = Null

NextRate == ResolveRate

SpecRate == InitRate /\ [][NextRate]_vars

\* --------------------------------------------------- DCB page: input modes
\* The three input types, the input type whose panel shows each mode field,
\* and what is typed into the fields in this specification.
InputOptions == {"instalments", "outstanding", "collection"}
ModeOfField ==
    [instalmentsPaid |-> "instalments",
     principalOutstanding |-> "outstanding", interestOutstanding |-> "outstanding",
     principalCollection |-> "collection", interestCollection |-> "collection"]
ModeFieldValues ==
    [instalmentsPaid |-> {Null, Num(1)},
     principalOutstanding |-> {Null, Num(3000)},
     interestOutstanding |-> {Null, Num(250)},
     principalCollection |-> {Null, Num(800)}]

\* The Input Type select: the fields of the other panels keep their values.
DCBSetInputOption ==
    /\ page = "dcb"
    /\ \E o \in InputOptions : dcb' = [dcb EXCEPT !.inputOption = o]
    /\ UNCHANGED <<page, results, toast, thrown, loanVars, depositVars, rateVars, historyVars>>

\* A change of a field of the panel shown for the selected input type.
DCBSetModeField ==
    /\ page = "dcb"
    /\ \E fld \in DOMAIN ModeFieldValues : \E v \in ModeFieldValues[fld] :
          /\ dcb.inputOption = ModeOfField[fld]
          /\ dcb' = [dcb EXCEPT ![fld] = v]
    /\ UNCHANGED <<page, results, toast, thrown, loanVars, depositVars, rateVars, historyVars>>

\* A DCB form with the fields of the two input types not selected emptied.
SelectedInputs(f) ==
    [f EXCEPT !.instalmentsPaid = IF f.inputOption = "instalments" THEN @ ELSE Null,
              !.principalOutstanding = IF f.inputOption = "outstanding" THEN @ ELSE Null,
              !.interestOutstanding = IF f.inputOption = "outstanding" THEN @ ELSE Null,
              !.principalCollection = IF f.inputOption = "collection" THEN @ ELSE Null,
              !.interestCollection = IF f.inputOption = "collection" THEN @ ELSE Null]

\* History: note a request made with the fields of the input types not
\* selected empty, and what the page holds for it.
RememberSelected ==
    /\ requested # Null
    /\ page = "dcb"
    /\ SelectedInputs(requested) = requested
    /\ memo' = [form |-> requested, stored |-> Stored]
    /\ UNCHANGED <<page, dcbVars, loanVars, depositVars, rateVars, requested>>

\* The DCB page with the loan and the as-of date typed in: three monthly
\* instalments from 31 January 2024, two of them due.
InitModes ==
    /\ page = "dcb"
    /\ dcb = [DCBEmptyForm EXCEPT !.loanAmount = Num(3800), !.sanctionDate = <<2023, 11, 1>>,
                                  !.interestRate = Num(600), !.numInstalments = Num(3),
                                  !.instalmentFreq = "monthly", !.loanPeriod = Num(1),
                                  !.interestAppFreq = "no-compound",
                                  !.instalmentStartDate = <<2024, 1, 31>>,
                                  !.upToDate = <<2024, 2, 29>>]
    /\ results = Null /\ toast = "none" /\ thrown = FALSE
    /\ loan = LoanEmptyForm /\ emi = Null /\ lastDate = Null /\ schedule = <<>>
    /\ deposit = DepositEmptyForm /\ result = Null /\ table = <<>>
    /\ rateQuery = Null
    /\ resolved = Null
    /\ requested = Null
    /\ memo = Null

NextModes ==
    \/ DCBSetInputOption
    \/ DCBSetModeField
    \/ DCBCalculate
    \/ RememberSelected

SpecModes == InitModes /\ [][NextModes]_vars

\* ================================================================== claims
\* The DCB page holds a stored result.
DCBStored == page = "dcb" /\ results # Null

\* The loan page holds a stored schedule.
LoanStored == page = "loan" /\ emi # Null

\* The period rate and the instalment count of a form.
FormRate(f) ==
    getRatePerPeriod(Div(parseFloat(f.interestRate), Num(100)), f.interestAppFreq,
                     getMonthsToAdd(f.instalmentFreq))
FormCount(f) == parseInt(f.numInstalments)[1]

\* The sum of a field over rows from+1 .. to of a schedule.
RECURSIVE RangeSum(_, _, _, _)
RangeSum(rows, from, to, field) ==
    IF to <= from THEN Zero
    ELSE Add(rows[from + 1][field], RangeSum(rows, from + 1, to, field))

\* The amounts of a row, and of a DCB result.
RowAmounts(row) ==
    {row.principalAmount, row.interestAmount, row.totalInstallment, row.principalBalance}
ResultAmounts(res) ==
    {res.instalmentAmount, res.emiPerMonth, res.principalDemand, res.interestDemand,
     res.overduePrincipal, res.overdueInterest, res.outstandingPrincipal,
     res.outstandingInterest, res.totalPrincipalBalance, res.totalInterestBalance,
     res.demand, res.collection, res.balance}

\* C1: every stored DCB result, whatever the mode, the paid count and the
\* as-of date, has demand = principalDemand + interestDemand and
\* balance = demand - collection.
C1_BalanceIdentity ==
    DCBStored =>
        /\ results.demand = Add(results.principalDemand, results.interestDemand)
        /\ results.balance = Sub(results.demand, results.collection)

\* A result of the collection mode with paid rows and a demand, all finite.
C1_Witness ==
    /\ DCBStored
    /\ dcb.inputOption = "collection"
    /\ IsFinite(results.balance)
    /\ Lt(Zero, results.collection)
    /\ Lt(results.collection, results.demand)

\* C2: with the period rate 0 and n >= 1 instalments, both calculators store
\* the instalment amount principal / n, every row repays principal / n with
\* interest 0, and no NaN is stored.
C2_ZeroRateFallback ==
    /\ (DCBStored /\ FormRate(dcb) = Zero /\ FormCount(dcb) >= 1) =>
          LET share == Div(parseFloat(dcb.loanAmount), Num(FormCount(dcb)))
              rows == results.amortizationSchedule
          IN  /\ results.instalmentAmount = share
              /\ \A i \in 1..Len(rows) :
                    /\ rows[i].principalAmount = share
                    /\ rows[i].interestAmount = Zero
                    /\ NaN \notin RowAmounts(rows[i])
              /\ NaN \notin ResultAmounts(results)
    /\ (LoanStored /\ FormRate(loan) = Zero /\ FormCount(loan) >= 1) =>
          LET share == Div(parseFloat(loan.loanAmount), Num(FormCount(loan)))
          IN  /\ emi = share
              /\ \A i \in 1..Len(schedule) :
                    /\ schedule[i].principalAmount = share
                    /\ schedule[i].interestAmount = Zero
                    /\ NaN \notin RowAmounts(schedule[i])

\* The principal portions of a schedule sum to the principal, and the
\* balance after its last row is 0.
RepaysPrincipal(rows, principal) ==
    /\ RangeSum(rows, 0, Len(rows), "principalAmount") = principal
    /\ rows[Len(rows)].principalBalance = Zero

\* C3: in every schedule generated with principal > 0, period rate r > 0 and
\* n >= 1, the principal portions sum to the principal and the balance after
\* the last row is 0.
C3_PrincipalRepaid ==
    /\ (DCBStored /\ Lt(Zero, parseFloat(dcb.loanAmount)) /\ Lt(Zero, FormRate(dcb))
           /\ FormCount(dcb) >= 1) =>
          RepaysPrincipal(results.amortizationSchedule, parseFloat(dcb.loanAmount))
    /\ (LoanStored /\ Lt(Zero, parseFloat(loan.loanAmount)) /\ Lt(Zero, FormRate(loan))
           /\ FormCount(loan) >= 1) =>
          RepaysPrincipal(schedule, parseFloat(loan.loanAmount))

\* A stored DCB schedule of three rows at a rate above 0.
C3_Witness ==
    /\ DCBStored
    /\ Lt(Zero, FormRate(dcb))
    /\ Len(results.amortizationSchedule) = 3
    /\ \A i \in 1..3 : Lt(Zero, results.amortizationSchedule[i].principalAmount)

\* The rows of a schedule follow the reducing-balance recurrence at rate r
\* from the principal, with one instalment amount in all rows.
FollowsRecurrence(rows, principal, r) ==
    \A i \in 1..Len(rows) :
        LET running == IF i = 1 THEN principal ELSE rows[i - 1].principalBalance
        IN  /\ rows[i].interestAmount = Mul(running, r)
            /\ Add(rows[i].principalAmount, rows[i].interestAmount) = rows[i].totalInstallment
            /\ rows[i].principalBalance = Sub(running, rows[i].principalAmount)
            /\ rows[i].totalInstallment = rows[1].totalInstallment

\* C4: in every generated schedule each row's interest is the running
\* balance before it times r, principal + interest is its totalInstallment,
\* its balance-after is the running balance minus its principal, and
\* totalInstallment is the same in every row.
C4_RowRecurrence ==
    /\ DCBStored =>
          FollowsRecurrence(results.amortizationSchedule, parseFloat(dcb.loanAmount),
                            FormRate(dcb))
    /\ LoanStored => FollowsRecurrence(schedule, parseFloat(loan.loanAmount), FormRate(loan))

\* A stored DCB schedule whose second row charges interest on a balance
\* already reduced by the first.
C4_Witness ==
    /\ DCBStored
    /\ Len(results.amortizationSchedule) >= 2
    /\ Lt(Zero, results.amortizationSchedule[2].interestAmount)
    /\ Lt(results.amortizationSchedule[2].interestAmount,
          results.amortizationSchedule[1].interestAmount)

\* The months between instalments of a frequency, and the date k calendar
\* months after a date, the day clamped to the last day of the month reached.
MonthsPerInstalment(freq) ==
    CASE freq = "monthly" -> 1 [] freq = "quarterly" -> 3
      [] freq = "half-yearly" -> 6 [] freq = "yearly" -> 12
MonthsAfter(date, k) ==
    LET total == (date[2] - 1) + k
        y == date[1] + total \div 12
        m == (total % 12) + 1
        last == DaysInMonth(y, m)
    IN  <<y, m, IF date[3] > last THEN last ELSE date[3]>>

\* C5: the schedule has n rows; row i (0-based) is numbered i + 1 and is due
\* i * monthsPerInstalment calendar months after the start date, counted from
\* the start date itself with the day clamped to the month's last day: a
\* start on the 31st gives the last day of every month reached.
C5_DueDates ==
    DCBStored =>
        LET rows == results.amortizationSchedule
            start == dcb.instalmentStartDate
            months == MonthsPerInstalment(dcb.instalmentFreq)
        IN  /\ Len(rows) = FormCount(dcb)
            /\ \A i \in 1..Len(rows) :
                  /\ rows[i].installmentNumber = i
                  /\ rows[i].dueDate = MonthsAfter(start, (i - 1) * months)
                  /\ start[3] = 31 =>
                        rows[i].dueDate[3] = DaysInMonth(rows[i].dueDate[1], rows[i].dueDate[2])

\* A monthly schedule from 31 January of a leap year: 29 February, then 31 March.
C5_Witness ==
    /\ DCBStored
    /\ dcb.instalmentFreq = "monthly"
    /\ Len(results.amortizationSchedule) >= 3
    /\ results.amortizationSchedule[1].dueDate = <<2024, 1, 31>>
    /\ results.amortizationSchedule[2].dueDate = <<2024, 2, 29>>
    /\ results.amortizationSchedule[3].dueDate = <<2024, 3, 31>>

\* The number of rows due on or before a date.
DueCount(rows, asOf) == Cardinality({i \in 1..Len(rows) : DateLe(rows[i].dueDate, asOf)})

\* The sum of a field over the rows due on or before a date.
RECURSIVE DueSum(_, _, _)
DueSum(rows, asOf, field) ==
    IF rows = <<>> THEN Zero
    ELSE Add(IF DateLe(Head(rows).dueDate, asOf) THEN Head(rows)[field] ELSE Zero,
             DueSum(Tail(rows), asOf, field))

\* The number typed into a field, 0 for an empty field.
Typed(v) == IF v = Null THEN Zero ELSE v

\* The outstanding principal Po of the outstanding and collection modes.
ModePo ==
    IF dcb.inputOption = "outstanding" THEN Typed(dcb.principalOutstanding)
    ELSE Sub(dcb.loanAmount, Typed(dcb.principalCollection))

\* A row with balance-after below Po exists.
SomeRowBelowPo ==
    \E i \in 1..Len(results.amortizationSchedule) :
        Lt(results.amortizationSchedule[i].principalBalance, ModePo)

\* The paid count k of the stored result: supplied in the instalments mode,
\* else the 0-based index of the first row with balance-after below Po, 0 if none.
PaidCount ==
    IF dcb.inputOption = "instalments" THEN Typed(dcb.instalmentsPaid)[1]
    ELSE IF SomeRowBelowPo
         THEN (CHOOSE i \in 1..Len(results.amortizationSchedule) :
                  /\ Lt(results.amortizationSchedule[i].principalBalance, ModePo)
                  /\ \A j \in 1..(i - 1) :
                        ~Lt(results.amortizationSchedule[j].principalBalance, ModePo)) - 1
         ELSE 0

\* C6: in the instalments mode with 0 <= k < dueCount the overdue count is
\* dueCount - k, the overdue principal and interest are the sums over rows
\* k .. dueCount-1, and overdueSinceDate is the due date of row k.
C6_OverdueRange ==
    (DCBStored /\ dcb.inputOption = "instalments") =>
        LET rows == results.amortizationSchedule
            k == PaidCount
            due == DueCount(rows, dcb.upToDate)
        IN  (0 <= k /\ k < due) =>
               /\ results.installmentsToBePaid = due - k
               /\ results.overduePrincipal = RangeSum(rows, k, due, "principalAmount")
               /\ results.overdueInterest = RangeSum(rows, k, due, "interestAmount")
               /\ results.overdueSinceDate = rows[k + 1].dueDate

\* Three rows, two of them due, one paid: one overdue since the second due date.
C6_Witness ==
    /\ DCBStored
    /\ dcb.inputOption = "instalments"
    /\ Len(results.amortizationSchedule) = 3
    /\ DueCount(results.amortizationSchedule, dcb.upToDate) = 2
    /\ PaidCount = 1
    /\ results.installmentsToBePaid = 1
    /\ results.overdueSinceDate = results.amortizationSchedule[2].dueDate
    /\ Lt(Zero, results.overduePrincipal)

\* C7: in every mode, when the paid count k is at least the number of rows
\* due on or before the as-of date, the overdue count is 0 and
\* overdueSinceDate and overdueDays are none.
C7_NothingOverdue ==
    DCBStored =>
        (PaidCount >= DueCount(results.amortizationSchedule, dcb.upToDate) =>
            /\ results.installmentsToBePaid = 0
            /\ results.overdueSinceDate = Null
            /\ results.overdueDays = Null)

\* A derived paid count of 2 with two rows due and a third not yet due.
C7_Witness ==
    /\ DCBStored
    /\ dcb.inputOption = "outstanding"
    /\ PaidCount = 2
    /\ DueCount(results.amortizationSchedule, dcb.upToDate) = 2
    /\ Len(results.amortizationSchedule) = 3
    /\ results.overdueSinceDate = Null

\* C8: in the outstanding and collection modes the paid count is the index
\* of the first row with balance-after strictly below Po, and 0 when no row
\* qualifies (Po equal to the final balance included): collection is then 0,
\* and no error is raised.
C8_DerivedPaidCount ==
    (page = "dcb" /\ dcb.inputOption \in {"outstanding", "collection"}) =>
        /\ thrown = FALSE
        /\ results # Null =>
              LET rows == results.amortizationSchedule
              IN  /\ InstalmentsPaidNum(dcb, parseFloat(dcb.loanAmount), rows) = PaidCount
                  /\ results.collection =
                        Add(RangeSum(rows, 0, PaidCount, "principalAmount"),
                            RangeSum(rows, 0, PaidCount, "interestAmount"))
                  /\ results.installmentsToBePaid =
                        Max(0, DueCount(rows, dcb.upToDate) - PaidCount)
                  /\ ~SomeRowBelowPo => (PaidCount = 0 /\ results.collection = Zero)

\* A loan repaid in full (Po = 0 = the final balance): nothing counts as paid.
C8_Witness ==
    /\ DCBStored
    /\ dcb.inputOption = "collection"
    /\ ModePo = Zero
    /\ Len(results.amortizationSchedule) = 3
    /\ results.amortizationSchedule[3].principalBalance = Zero
    /\ results.collection = Zero
    /\ results.installmentsToBePaid = 3

\* C9: in the outstanding mode totalPrincipalBalance = Po, totalInterestBalance
\* = Io, overdueInterest = Io and overduePrincipal = max(0, Po - S), S being
\* the principal less the principal portions of the paid rows and of rows
\* k .. dueCount-1; none of the four is negative when Po >= 0 and Io >= 0.
C9_OutstandingOverrides ==
    (DCBStored /\ dcb.inputOption = "outstanding") =>
        LET rows == results.amortizationSchedule
            Po == Typed(dcb.principalOutstanding)
            Io == Typed(dcb.interestOutstanding)
            due == DueCount(rows, dcb.upToDate)
            S == Sub(Sub(dcb.loanAmount, RangeSum(rows, 0, PaidCount, "principalAmount")),
                     RangeSum(rows, PaidCount, due, "principalAmount"))
        IN  /\ results.totalPrincipalBalance = Po
            /\ results.totalInterestBalance = Io
            /\ results.overdueInterest = Io
            /\ results.overduePrincipal = MathMax(Zero, Sub(Po, S))
            /\ (~Lt(Po, Zero) /\ ~Lt(Io, Zero)) =>
                  \A x \in {results.totalPrincipalBalance, results.totalInterestBalance,
                            results.overdueInterest, results.overduePrincipal} :
                      ~Lt(x, Zero)

\* Po >= 0 below the schedule-derived outstanding principal: the clamp acts.
C9_Witness ==
    /\ DCBStored
    /\ dcb.inputOption = "outstanding"
    /\ ~Lt(Typed(dcb.principalOutstanding), Zero)
    /\ Lt(Zero, Typed(dcb.interestOutstanding))
    /\ Lt(Typed(dcb.principalOutstanding), results.outstandingPrincipal)
    /\ results.overduePrincipal = Zero
    /\ results.overdueInterest = Typed(dcb.interestOutstanding)

\* C10: in the collection mode overduePrincipal = max(0, principalDemand - Pc)
\* and overdueInterest = max(0, interestDemand - Ic), the demands being the
\* sums over the rows due on or before the as-of date; neither is negative,
\* even when collections exceed demand.
C10_CollectionOverdue ==
    (DCBStored /\ dcb.inputOption = "collection") =>
        LET rows == results.amortizationSchedule
            Pc == Typed(dcb.principalCollection)
            Ic == Typed(dcb.interestCollection)
        IN  /\ results.principalDemand = DueSum(rows, dcb.upToDate, "principalAmount")
            /\ results.interestDemand = DueSum(rows, dcb.upToDate, "interestAmount")
            /\ results.overduePrincipal = MathMax(Zero, Sub(results.principalDemand, Pc))
            /\ results.overdueInterest = MathMax(Zero, Sub(results.interestDemand, Ic))
            /\ ~Lt(results.overduePrincipal, Zero)
            /\ ~Lt(results.overdueInterest, Zero)

\* Interest collected above the interest demanded, principal collected below.
C10_Witness ==
    /\ DCBStored
    /\ dcb.inputOption = "collection"
    /\ Lt(Zero, results.interestDemand)
    /\ Lt(results.interestDemand, Typed(dcb.interestCollection))
    /\ results.overdueInterest = Zero
    /\ Lt(Zero, results.overduePrincipal)
    /\ Lt(Zero, Typed(dcb.principalCollection))

\* The sum of a field over the first k rows of a schedule (all rows when k
\* exceeds their number), and over the rows from there up to row `due`.
PaidSum(rows, k, field) == RangeSum(rows, 0, Min(k, Len(rows)), field)
OverdueSum(rows, k, due, field) == RangeSum(rows, Min(k, Len(rows)), due, field)

\* C11 as stated: in every mode outstandingPrincipal = principal -
\* paidPrincipal - overduePrincipal and outstandingInterest =
\* totalInterestAccrued - paidInterest - overdueInterest, with the overdue
\* amounts reported in the same result.
C11_OutstandingFromReportedOverdue ==
    DCBStored =>
        LET rows == results.amortizationSchedule
        IN  /\ results.outstandingPrincipal =
                  Sub(Sub(dcb.loanAmount, PaidSum(rows, PaidCount, "principalAmount")),
                      results.overduePrincipal)
            /\ results.outstandingInterest =
                  Sub(Sub(RangeSum(rows, 0, Len(rows), "interestAmount"),
                          PaidSum(rows, PaidCount, "interestAmount")),
                      results.overdueInterest)

\* C11 (amended): in every mode outstandingPrincipal = principal -
\* paidPrincipal - the principal of rows k .. dueCount-1 and outstandingInterest
\* = totalInterestAccrued - paidInterest - the interest of rows k .. dueCount-1;
\* in the instalments mode those two sums are the overdue amounts reported.
C11_OutstandingFromOverdueRows ==
    DCBStored =>
        LET rows == results.amortizationSchedule
            due == DueCount(rows, dcb.upToDate)
        IN  /\ results.outstandingPrincipal =
                  Sub(Sub(dcb.loanAmount, PaidSum(rows, PaidCount, "principalAmount")),
                      OverdueSum(rows, PaidCount, due, "principalAmount"))
            /\ results.outstandingInterest =
                  Sub(Sub(RangeSum(rows, 0, Len(rows), "interestAmount"),
                          PaidSum(rows, PaidCount, "interestAmount")),
                      OverdueSum(rows, PaidCount, due, "interestAmount"))
            /\ dcb.inputOption = "instalments" =>
                  /\ results.overduePrincipal = OverdueSum(rows, PaidCount, due, "principalAmount")
                  /\ results.overdueInterest = OverdueSum(rows, PaidCount, due, "interestAmount")

\* An outstanding-mode result whose reported overdue principal is not the
\* principal of the rows k .. dueCount-1, with paid and overdue rows.
C11_Witness ==
    /\ DCBStored
    /\ dcb.inputOption = "outstanding"
    /\ IsFinite(results.outstandingPrincipal)
    /\ PaidCount >= 1
    /\ DueCount(results.amortizationSchedule, dcb.upToDate) > PaidCount
    /\ results.overduePrincipal #
          OverdueSum(results.amortizationSchedule, PaidCount,
                     DueCount(results.amortizationSchedule, dcb.upToDate), "principalAmount")

\* The aggregate amounts of a DCB result.
AggregateAmounts(res) ==
    {res.principalDemand, res.interestDemand, res.demand, res.collection, res.balance,
     res.overduePrincipal, res.overdueInterest, res.outstandingPrincipal,
     res.outstandingInterest, res.totalPrincipalBalance, res.totalInterestBalance}

\* C12: with the instalment count 0 the DCB calculation raises no error, the
\* stored schedule is empty and every aggregate amount of the result is 0.
C12_ZeroInstalments ==
    (page = "dcb" /\ ~DCBMissingField(dcb) /\ FormCount(dcb) = 0) =>
        /\ thrown = FALSE
        /\ results # Null =>
              /\ results.amortizationSchedule = <<>>
              /\ AggregateAmounts(results) = {Zero}

\* C13: no stored result of the loan or DCB calculator holds a NaN or an
\* infinite amount: a request whose instalment formula divides by zero
\* (instalment count 0, or period rate 0) is rejected and stores nothing.
C13_NoUndefinedAmount ==
    /\ DCBStored =>
          /\ \A x \in ResultAmounts(results) : IsFinite(x)
          /\ \A i \in 1..Len(results.amortizationSchedule) :
                \A x \in RowAmounts(results.amortizationSchedule[i]) : IsFinite(x)
          /\ FormCount(dcb) # 0
          /\ FormRate(dcb) # Zero
    /\ LoanStored =>
          /\ IsFinite(emi)
          /\ \A i \in 1..Len(schedule) : \A x \in RowAmounts(schedule[i]) : IsFinite(x)
          /\ FormCount(loan) # 0
          /\ FormRate(loan) # Zero

\* C14: for every DCB form that passes validation the calculation raises no
\* exception and stores a result, whatever integer the paid count is, above
\* the number of rows and below 0 included.
C14_NoException ==
    (page = "dcb" /\ ~DCBMissingField(dcb)) =>
        /\ thrown = FALSE
        /\ toast # "none" => results # Null

\* The required fields of the two forms, and a form with one of them empty
\* (nothing selected in a select, nothing typed or picked elsewhere).
LoanRequired ==
    {"loanAmount", "sanctionDate", "interestRate", "numInstalments", "instalmentFreq",
     "interestAppFreq", "instalmentStartDate"}
DCBRequired == LoanRequired \cup {"loanPeriod", "upToDate"}
Selects == {"instalmentFreq", "interestAppFreq"}
IsEmpty(f, fld) == IF fld \in Selects THEN f[fld] = "" ELSE f[fld] = Null
SomeEmpty(f, fields) == \E fld \in fields : IsEmpty(f, fld)

\* The variables of the three pages.
pageVars == <<page, dcbVars, loanVars, depositVars>>

\* C15: a calculate request made while a required field is empty (amount,
\* sanction date, rate, instalment count, the two frequencies, start date,
\* on the DCB page also loan period and as-of date) computes nothing and
\* leaves the stored result, schedule and instalment amount as they were; the
\* DCB page reports an error for it and not success.
C15_EmptyFieldRejected ==
    [][/\ (page = "dcb" /\ page' = "dcb" /\ dcb' = dcb /\ SomeEmpty(dcb, DCBRequired)
            /\ pageVars' # pageVars) =>
              (results' = results /\ toast' = "error")
       /\ (page = "loan" /\ page' = "loan" /\ loan' = loan /\ SomeEmpty(loan, LoanRequired)) =>
              (emi' = emi /\ lastDate' = lastDate /\ schedule' = schedule)]_vars

\* The DCB page holds a result stored earlier and has reported an error for
\* a request made after a required number field was cleared.
C15_Witness ==
    /\ page = "dcb"
    /\ results # Null
    /\ toast = "error"
    /\ SomeEmpty(dcb, DCBRequired)
    /\ requested # Null
    /\ ~SomeEmpty(requested, DCBRequired)

\* x multiplied by itself e times.
RECURSIVE Power(_, _)
Power(x, e) == IF e = 0 THEN One ELSE Mul(Power(x, e - 1), x)

\* x to a power e > 0, whole unless x is 0.
Raised(x, e) == IF x = Zero THEN Zero ELSE Power(x, e[1])

\* The compounding periods in a year of a frequency.
CompoundingPeriods(frequency) ==
    CASE frequency = "daily" -> 365 [] frequency = "monthly" -> 12
      [] frequency = "quarterly" -> 4 [] frequency = "half-yearly" -> 2
      [] frequency = "yearly" -> 1

\* The reference period rate: annualRate * months / 12 without compounding,
\* else (1 + annualRate / p)^(p * months / 12) - 1, which is 0 at the rate 0.
ReferenceRate(q) ==
    IF q.frequency = "no-compound"
    THEN Div(Mul(q.annualRate, Num(q.months)), Num(12))
    ELSE IF q.annualRate = Zero THEN Zero
    ELSE Sub(Raised(Add(One, Div(q.annualRate, Num(CompoundingPeriods(q.frequency)))),
                    Div(Num(CompoundingPeriods(q.frequency) * q.months), Num(12))),
             One)

\* C16: the period-rate resolver returns annualRate * months / 12 for
\* no-compound and (1 + annualRate / p)^(p * months / 12) - 1 for daily,
\* monthly, quarterly, half-yearly and yearly with p = 365, 12, 4, 2, 1; when
\* the compounding period is the instalment period the rate is annualRate / p
\* (12% monthly/monthly gives 0.01); the DCB and loan copies agree.
C16_RateResolver ==
    resolved # Null =>
        /\ resolved.dcb = ReferenceRate(rateQuery)
        /\ resolved.loan = resolved.dcb
        /\ (rateQuery.frequency # "no-compound"
              /\ CompoundingPeriods(rateQuery.frequency) * rateQuery.months = 12) =>
               resolved.dcb = Div(rateQuery.annualRate,
                                  Num(CompoundingPeriods(rateQuery.frequency)))
        /\ rateQuery = [annualRate |-> <<3, 25>>, frequency |-> "monthly", months |-> 1] =>
               resolved.dcb = <<1, 100>>

\* The resolver has answered 12% compounded quarterly over a yearly period:
\* 1.03^4 - 1, above the simple 0.12.
C16_Witness ==
    /\ resolved # Null
    /\ rateQuery = [annualRate |-> <<3, 25>>, frequency |-> "quarterly", months |-> 12]
    /\ resolved.dcb = <<12550881, 100000000>>
    /\ resolved.loan = resolved.dcb

\* The deposit page holds a stored result.
DepositStored == page = "deposit" /\ result # Null

\* The principal, the monthly contribution, the term in months and the
\* nominal yearly rate of the deposit form; an empty field counts as 0 and a
\* term below 0 as 0.
DepositPrincipal == Typed(deposit.principal)
Contribution == Typed(deposit.monthly)
TermMonths == IF Typed(deposit.months)[1] < 0 THEN 0 ELSE Typed(deposit.months)[1]
NominalRate == Div(Typed(deposit.rate), Num(100))

\* principal + m * contribution
Contributed(m) == Add(DepositPrincipal, Mul(Num(m), Contribution))

\* The cumulative interest and the balance before month m of the table.
InterestBefore(m) == IF m = 1 THEN Zero ELSE table[m - 1].interest
BalanceBefore(m) == IF m = 1 THEN DepositPrincipal ELSE table[m - 1].balance

\* C17: with the monthly-interest payout the table balance after month m is
\* principal + m * contribution for every m in 1..termMonths and
\* maturityValue = principal + termMonths * contribution = totalPrincipal,
\* whatever the rate and the compounding selection.
C17_PayoutNeverCompounds ==
    (DepositStored /\ deposit.paymentMethod = "monthly-interest") =>
        /\ Len(table) = TermMonths
        /\ \A m \in 1..TermMonths : table[m].balance = Contributed(m)
        /\ result.maturityValue = Contributed(TermMonths)
        /\ result.maturityValue = result.totalPrincipal

\* Three months of interest paid out at a rate above 0, quarterly
\* compounding selected, with contributions.
C17_Witness ==
    /\ DepositStored
    /\ deposit.paymentMethod = "monthly-interest"
    /\ deposit.comp = "quarterly"
    /\ Len(table) = 3
    /\ Lt(Zero, Contribution)
    /\ Lt(Zero, table[1].interest)
    /\ Lt(table[1].interest, table[3].interest)
    /\ table[3].balance = Num(2100)

\* C18: with the maturity payout and no-compound each month's interest is
\* (balance + contribution) * nominalRate / 12, added to the cumulative
\* interest only; the table balance after month m is principal + m *
\* contribution; maturityValue is the final balance plus the final cumulative
\* interest and interestAmount is that cumulative interest.
C18_SimpleInterestToMaturity ==
    (DepositStored /\ deposit.paymentMethod = "maturity" /\ deposit.comp = "no-compound") =>
        /\ Len(table) = TermMonths
        /\ \A m \in 1..TermMonths :
              /\ Sub(table[m].interest, InterestBefore(m)) =
                    Div(Mul(Add(BalanceBefore(m), Contribution), NominalRate), Num(12))
              /\ table[m].balance = Contributed(m)
        /\ result.interestAmount = InterestBefore(TermMonths + 1)
        /\ result.maturityValue = Add(Contributed(TermMonths), result.interestAmount)

\* Three months of simple interest at a rate above 0 with contributions.
C18_Witness ==
    /\ DepositStored
    /\ deposit.paymentMethod = "maturity"
    /\ deposit.comp = "no-compound"
    /\ Len(table) = 3
    /\ Lt(Zero, Contribution)
    /\ Lt(Zero, NominalRate)
    /\ Lt(result.totalPrincipal, result.maturityValue)
    /\ result.interestAmount = table[3].interest

\* The deposit form takes the compounding branch: maturity payout and a
\* selection other than no-compound.
Compounding == deposit.paymentMethod = "maturity" /\ deposit.comp # "no-compound"

\* The effective monthly rate j of the typed forms that compound: 0 at the
\* rate 0, else the monthly compounding of DepositForms, nominalRate / 12.
MonthlyRate == IF NominalRate = Zero THEN Zero ELSE Div(NominalRate, Num(12))

\* principal * (1 + j)^termMonths
GrownPrincipal == Mul(DepositPrincipal, Power(Add(One, MonthlyRate), TermMonths))

\* contribution * ((1 + j)^termMonths - 1) / j * (1 + j)
AnnuityDue ==
    Mul(Mul(Contribution,
            Div(Sub(Power(Add(One, MonthlyRate), TermMonths), One), MonthlyRate)),
        Add(One, MonthlyRate))

C20_FunctionOfInputs ==
    /\ []((memo # Null /\ requested = memo.form) => Stored = memo.stored)
    /\ [][(page' = page /\ <<dcb, loan, deposit>>' # <<dcb, loan, deposit>>
              /\ ~(deposit' = DepositEmptyForm /\ result' = Null /\ table' = <<>>
                      /\ requested' = Null)) =>
                Stored' = Stored]_vars

\* The deposit page holds the result of a request whose inputs were
\* requested before, and the inputs have been edited since.
C20_Witness ==
    /\ page = "deposit"
    /\ memo # Null
    /\ requested = memo.form
    /\ result # Null
    /\ Len(table) = 2
    /\ Stored = memo.stored
    /\ deposit # requested

\* C21: in every mode principalDemand and interestDemand are the sums over
\* exactly the rows due on or before the as-of date, a row due on that date
\* included, and collection is the principal plus interest of the first k
\* rows; in the collection mode k is the derived count, so collection is
\* the amount of the schedule and neither Pc + Ic nor a function of Ic.
C21_DemandAndCollection ==
    DCBStored =>
        LET rows == results.amortizationSchedule
        IN  /\ results.principalDemand = DueSum(rows, dcb.upToDate, "principalAmount")
            /\ results.interestDemand = DueSum(rows, dcb.upToDate, "interestAmount")
            /\ results.collection =
                  Add(PaidSum(rows, PaidCount, "principalAmount"),
                      PaidSum(rows, PaidCount, "interestAmount"))

\* A collection-mode result with a row due on the as-of date itself counted
\* in the demand, and a collection that is not Pc + Ic.
C21_Witness ==
    /\ DCBStored
    /\ dcb.inputOption = "collection"
    /\ \E i \in 1..Len(results.amortizationSchedule) :
          /\ results.amortizationSchedule[i].dueDate = dcb.upToDate
          /\ results.principalDemand =
                RangeSum(results.amortizationSchedule, 0, i, "principalAmount")
    /\ Lt(Zero, results.collection)
    /\ results.collection #
          Add(Typed(dcb.principalCollection), Typed(dcb.interestCollection))

\* The days from 1 January 2000 to a date of 2000 or later, counted year by
\* year and month by month.
RECURSIVE DaysOfYears(_, _)
DaysOfYears(from, to) ==
    IF from >= to THEN 0 ELSE (IF IsLeap(from) THEN 366 ELSE 365) + DaysOfYears(from + 1, to)
RECURSIVE DaysOfMonths(_, _)
DaysOfMonths(y, m) == IF m <= 1 THEN 0 ELSE DaysInMonth(y, m - 1) + DaysOfMonths(y, m - 1)
DaysSince2000(date) == DaysOfYears(2000, date[1]) + DaysOfMonths(date[1], date[2]) + date[3] - 1

\* C22: overdueDays is present exactly when overdueSinceDate is; when
\* present, overdueSinceDate is the due date of row k and is on or before the
\* as-of date, and overdueDays is the number of whole days from it to the
\* as-of date, never below 0.
C22_OverdueSince ==
    DCBStored =>
        LET rows == results.amortizationSchedule
        IN  /\ (results.overdueDays = Null) <=> (results.overdueSinceDate = Null)
            /\ results.overdueSinceDate # Null =>
                  /\ 0 <= PaidCount /\ PaidCount < Len(rows)
                  /\ results.overdueSinceDate = rows[PaidCount + 1].dueDate
                  /\ DateLe(results.overdueSinceDate, dcb.upToDate)
                  /\ results.overdueDays =
                        Num(DaysSince2000(dcb.upToDate) - DaysSince2000(results.overdueSinceDate))
                  /\ results.overdueDays[1] >= 0

\* One instalment paid and the second overdue since 29 February 2024, 168
\* days before the as-of date 15 August 2024.
C22_Witness ==
    /\ DCBStored
    /\ PaidCount = 1
    /\ dcb.upToDate = <<2024, 8, 15>>
    /\ results.overdueSinceDate = <<2024, 2, 29>>
    /\ results.overdueDays = Num(168)

\* C23: the result of a DCB calculation depends on the loan parameters, the
\* as-of date and the inputs of the selected input type only: two requests
\* that differ only in values left in the fields of the input types not
\* selected store the same result, field for field.
C23_ModesExclusive ==
    (page = "dcb" /\ memo # Null /\ requested # Null
        /\ SelectedInputs(requested) = SelectedInputs(memo.form)) =>
            Stored = memo.stored

\* Two requests in the instalments mode, with and without an outstanding
\* principal and a principal collection left in their fields, stored the same.
C23_Witness ==
    /\ page = "dcb"
    /\ memo # Null
    /\ requested # Null
    /\ requested.inputOption = "instalments"
    /\ requested.instalmentsPaid = Num(1)
    /\ requested.principalOutstanding # Null
    /\ requested.principalCollection # Null
    /\ memo.form.principalOutstanding = Null
    /\ memo.form.principalCollection = Null
    /\ SelectedInputs(requested) = SelectedInputs(memo.form)
    /\ results # Null
    /\ Stored = memo.stored

\* The interest paid out for month m, (principal + m * contribution) *
\* ratePercent / (1200 + ratePercent), and the total paid out up to month m.
MonthlyPayout(m) ==
    Div(Mul(Contributed(m), Typed(deposit.rate)), Add(Num(1200), Typed(deposit.rate)))
RECURSIVE PaidOutUpTo(_)
PaidOutUpTo(m) == IF m = 0 THEN Zero ELSE Add(PaidOutUpTo(m - 1), MonthlyPayout(m))

\* C24: with the monthly-interest payout the interest of month m is
\* (principal + m * contribution) * ratePercent / (1200 + ratePercent),
\* whatever compounding is selected, and the interest column of row m is the
\* total of these amounts up to month m; with no contribution every month
\* adds the same amount, 100000 * 12 / 1212 for 100000 at 12%.
C24_PayoutInterest ==
    (DepositStored /\ deposit.paymentMethod = "monthly-interest") =>
        /\ Len(table) = TermMonths
        /\ \A m \in 1..TermMonths :
              /\ table[m].interest = PaidOutUpTo(m)
              /\ table[m].interest = Add(InterestBefore(m), MonthlyPayout(m))
              /\ Contribution = Zero => table[m].interest = Add(InterestBefore(m), table[1].interest)
        /\ (deposit.principal = Num(100000) /\ deposit.rate = Num(12) /\ Contribution = Zero) =>
              \A m \in 1..TermMonths : table[m].interest = Div(Num(m * 100000 * 12), Num(1212))

\* Three months of interest on 100000 at 12% paid out, quarterly compounding
\* selected: 100000/101 a month.
C24_Witness ==
    /\ DepositStored
    /\ deposit.paymentMethod = "monthly-interest"
    /\ deposit.comp = "quarterly"
    /\ deposit.principal = Num(100000)
    /\ Len(table) = 3
    /\ table[1].interest = <<100000, 101>>
    /\ table[3].interest = <<300000, 101>>
    /\ result.interestAmount = table[3].interest

\* C25: in the instalments mode with 0 <= k <= dueCount,
\* overduePrincipal + overdueInterest = balance and totalPrincipalBalance =
\* outstandingPrincipal + overduePrincipal; with k > dueCount the overdue
\* amounts are 0 and balance and totalInterestBalance are below 0.
C25_OverdueIsBalance ==
    (DCBStored /\ dcb.inputOption = "instalments") =>
        LET due == DueCount(results.amortizationSchedule, dcb.upToDate)
        IN  /\ (0 <= PaidCount /\ PaidCount <= due) =>
                  /\ Add(results.overduePrincipal, results.overdueInterest) = results.balance
                  /\ results.totalPrincipalBalance =
                        Add(results.outstandingPrincipal, results.overduePrincipal)
            /\ PaidCount > due =>
                  /\ results.overduePrincipal = Zero
                  /\ results.overdueInterest = Zero
                  /\ Lt(results.balance, Zero)
                  /\ Lt(results.totalInterestBalance, Zero)

\* a < b on dates
DateBefore(a, b) == DateLe(a, b) /\ a # b

\* C26: in a schedule generated for a principal above 0 at a period rate
\* r > 0 the due dates strictly increase and the balance-after strictly
\* decreases with the row index; so the rows due on or before the as-of date
\* are exactly the first dueCount rows, and the rows k .. dueCount-1 taken
\* as overdue are all due and all after the k paid rows.
C26_StrictlyOrdered ==
    (DCBStored /\ Lt(Zero, parseFloat(dcb.loanAmount)) /\ Lt(Zero, FormRate(dcb))) =>
        LET rows == results.amortizationSchedule
            due == DueCount(rows, dcb.upToDate)
        IN  /\ \A i \in 1..Len(rows) : \A j \in (i + 1)..Len(rows) :
                  /\ DateBefore(rows[i].dueDate, rows[j].dueDate)
                  /\ Lt(rows[j].principalBalance, rows[i].principalBalance)
            /\ \A i \in 1..Len(rows) : Lt(rows[i].principalBalance, parseFloat(dcb.loanAmount))
            /\ {i \in 1..Len(rows) : DateLe(rows[i].dueDate, dcb.upToDate)} = 1..due
            /\ results.installmentsToBePaid = Cardinality((PaidCount + 1)..due)
            /\ \A i \in (PaidCount + 1)..due :
                  i \in 1..Len(rows) /\ DateLe(rows[i].dueDate, dcb.upToDate)

\* Three rows at a rate above 0, two of them due and one paid: the second
\* row is the one overdue row, the third is not yet due.
C26_Witness ==
    /\ DCBStored
    /\ Lt(Zero, FormRate(dcb))
    /\ Len(results.amortizationSchedule) = 3
    /\ DueCount(results.amortizationSchedule, dcb.upToDate) = 2
    /\ PaidCount = 1
    /\ results.installmentsToBePaid = 1
    /\ ~DateLe(results.amortizationSchedule[3].dueDate, dcb.upToDate)
    /\ Lt(results.amortizationSchedule[2].principalBalance,
          results.amortizationSchedule[1].principalBalance)

\* The balance after the first j rows of a schedule for a principal.
BalanceAfter(rows, principal, j) == IF j = 0 THEN principal ELSE rows[j].principalBalance

\* The input of the selected mode says that exactly the first j instalments
\* are paid: the paid count is j, or Po is the balance after j rows, or Pc is
\* the principal of the first j rows.
SaysPaid(j) ==
    LET rows == results.amortizationSchedule
    IN  CASE dcb.inputOption = "instalments" -> Typed(dcb.instalmentsPaid) = Num(j)
          [] dcb.inputOption = "outstanding" ->
                 Typed(dcb.principalOutstanding) = BalanceAfter(rows, dcb.loanAmount, j)
          [] dcb.inputOption = "collection" ->
                 Typed(dcb.principalCollection) = RangeSum(rows, 0, j, "principalAmount")

\* What a payment history of j paid instalments shows on the as-of date.
HistoryShown(j) ==
    LET rows == results.amortizationSchedule
        due == DueCount(rows, dcb.upToDate)
        paid == Add(RangeSum(rows, 0, j, "principalAmount"),
                    RangeSum(rows, 0, j, "interestAmount"))
    IN  [collection |-> paid,
         balance |-> Sub(Add(DueSum(rows, dcb.upToDate, "principalAmount"),
                             DueSum(rows, dcb.upToDate, "interestAmount")), paid),
         installmentsToBePaid |-> IF j < due THEN due - j ELSE 0,
         overdueSinceDate |-> IF j < due THEN rows[j + 1].dueDate ELSE Null,
         overduePrincipal |-> RangeSum(rows, j, due, "principalAmount")]

\* C27: for r > 0 and 0 <= j < n the three modes agree on the history "the
\* first j instalments are paid": the instalments mode with k = j, the
\* outstanding mode with Po the balance after j rows and the collection mode
\* with Pc the principal of the first j rows all take k = j and report one
\* and the same collection, balance, overdue count, overdueSinceDate and
\* overduePrincipal.
C27_ModesAgree ==
    (DCBStored /\ Lt(Zero, FormRate(dcb))) =>
        \A j \in 0..(Len(results.amortizationSchedule) - 1) :
            SaysPaid(j) =>
                /\ InstalmentsPaidNum(dcb, parseFloat(dcb.loanAmount),
                                      results.amortizationSchedule) = j
                /\ [fld \in DOMAIN HistoryShown(j) |-> results[fld]] = HistoryShown(j)

\* The collection mode with Pc = 800, the principal of the first of three
\* rows, two rows being due: one instalment overdue, its principal 1200.
C27_Witness ==
    /\ DCBStored
    /\ Lt(Zero, FormRate(dcb))
    /\ dcb.inputOption = "collection"
    /\ Len(results.amortizationSchedule) = 3
    /\ DueCount(results.amortizationSchedule, dcb.upToDate) = 2
    /\ SaysPaid(1)
    /\ results.installmentsToBePaid = 1
    /\ results.overduePrincipal = Num(1200)
    /\ results.overdueSinceDate = results.amortizationSchedule[2].dueDate

\* The loan calculator's form with the loan parameters of a DCB form.
LoanPart(f) ==
    [loanAmount |-> f.loanAmount, sanctionDate |-> f.sanctionDate,
     interestRate |-> f.interestRate, numInstalments |-> f.numInstalments,
     instalmentFreq |-> f.instalmentFreq, loanPeriod |-> f.loanPeriod,
     interestAppFreq |-> f.interestAppFreq, instalmentStartDate |-> f.instalmentStartDate]

\* C28: for the same principal, annual rate, instalment count, instalment
\* frequency, interest frequency and start date the loan calculator and the
\* DCB calculator give the same instalment amount and the same schedule, row
\* for row (number, due date, principal, interest, total, balance); and the
\* loan calculator's last instalment date is the due date of the last row of
\* its schedule when n >= 1.
C28_SameSchedule ==
    /\ DCBStored =>
          /\ results.instalmentAmount = LoanCompute(LoanPart(dcb)).emi
          /\ results.amortizationSchedule = LoanCompute(LoanPart(dcb)).schedule
    /\ LoanStored =>
          /\ emi = InstalmentAmount(parseFloat(loan.loanAmount), FormRate(loan), FormCount(loan))
          /\ schedule = AmortizationSchedule(parseFloat(loan.loanAmount), emi, FormRate(loan),
                                             FormCount(loan), loan.instalmentStartDate,
                                             getMonthsToAdd(loan.instalmentFreq))
          /\ FormCount(loan) >= 1 => lastDate = schedule[Len(schedule)].dueDate

\* The loan page holds three quarterly instalments at a rate above 0, the
\* last of them due on the stored last instalment date.
C28_Witness ==
    /\ LoanStored
    /\ loan.instalmentFreq = "quarterly"
    /\ Len(schedule) = 3
    /\ Lt(Zero, emi)
    /\ lastDate = schedule[3].dueDate
    /\ lastDate = <<2024, 7, 31>>

\* C29: with the maturity payout and compounding, a term of at least one
\* month, and principal, contribution and rate not below 0, the balance of
\* the last table row is the reported maturityValue and its cumulative
\* interest the reported interestAmount; in every payout method the table
\* has exactly termMonths rows, numbered 1 .. termMonths.
C29_TableMatchesClosedForm ==
    DepositStored =>
        /\ Len(table) = TermMonths
        /\ \A m \in 1..Len(table) : table[m].month = m
        /\ (Compounding /\ TermMonths >= 1 /\ ~Lt(DepositPrincipal, Zero)
               /\ ~Lt(Contribution, Zero) /\ ~Lt(NominalRate, Zero)) =>
              /\ table[Len(table)].balance = result.maturityValue
              /\ table[Len(table)].interest = result.interestAmount

\* Two months of monthly compounding at 600% with a contribution of 300 on
\* 1200: the table ends at the maturity value 3825 = (1500 * 1.5 + 300) * 1.5,
\* with interest 2025 on the 1800 paid in.
C29_Witness ==
    /\ DepositStored
    /\ Compounding
    /\ TermMonths = 2
    /\ DepositPrincipal = Num(1200)
    /\ Contribution = Num(300)
    /\ NominalRate = Num(6)
    /\ table[2].month = 2
    /\ table[2].balance = result.maturityValue
    /\ result.maturityValue = Num(3825)
    /\ table[2].interest = result.interestAmount
    /\ result.interestAmount = Num(2025)

\* The yield of a year of monthly compounding: (1 + nominalRate / 12)^12 - 1.
MonthlyCompoundedYield == Sub(Power(Add(One, Div(NominalRate, Num(12))), 12), One)

\* The deposit page holds the result of a request made with its form, an
\* empty principal, contribution, term or rate counting as 0, a term below 0
\* as no month at all, and no compounding selected as monthly compounding.
DepositCalculated ==
    /\ result # Null
    /\ result.totalPrincipal = Contributed(TermMonths)
    /\ Len(table) = TermMonths
    /\ \A m \in 1..Len(table) : table[m].contribution = Contribution
    /\ (deposit.months = Null \/ Typed(deposit.months)[1] < 0) =>
          /\ table = <<>>
          /\ result.totalPrincipal = DepositPrincipal
          /\ deposit.paymentMethod = "maturity" => result.maturityValue = DepositPrincipal
    /\ deposit.rate = Null => (result.interestAmount = Zero /\ result.apy = Zero)
    /\ deposit.comp = "" =>
          /\ result.apy = MonthlyCompoundedYield
          /\ (deposit.paymentMethod = "maturity" /\ TermMonths >= 1) =>
                table[1].interest = Mul(Contributed(1), Div(NominalRate, Num(12)))

\* C30: the deposit calculator never rejects a request: every calculate
\* stores a result, an empty principal, contribution, term or rate taken as
\* 0, a term below 0 as 0 months (empty table, maturityValue = principal with
\* the maturity payout) and an unselected compounding as monthly (12 periods
\* a year); reset returns every input to empty, the payout method to
\* maturity, the result to none and the table to empty.
C30_NeverRejects ==
    [][/\ DepositCalc => DepositCalculated'
       /\ DepositReset =>
             /\ deposit'.principal = Null /\ deposit'.monthly = Null
             /\ deposit'.months = Null /\ deposit'.rate = Null
             /\ deposit'.comp = "" /\ deposit'.paymentMethod = "maturity"
             /\ result' = Null
             /\ table' = <<>>]_vars

\* A request with a term of -2 months and no compounding selected stored a
\* result: the principal, no rows, the yield of monthly compounding.
C30_Witness ==
    /\ DepositStored
    /\ deposit.comp = ""
    /\ deposit.months = Num(-2)
    /\ deposit.monthly = Null
    /\ deposit.principal = Num(1200)
    /\ deposit.rate = Num(600)
    /\ deposit.paymentMethod = "maturity"
    /\ table = <<>>
    /\ result.maturityValue = Num(1200)
    /\ result.apy = <<527345, 4096>>

====
